---- MODULE Spec2Model ----
(***************************************************************************)
(* A model of the resolve crate (murarth/resolve): the query engine of     *)
(* src/src/resolver.rs over the UDP transport of src/src/socket.rs, the    *)
(* compressed-name decoder of src/src/message.rs and the search-list       *)
(* expansion of resolver.rs.                                               *)
(*                                                                         *)
(* Time is counted in ticks of the monotonic clock read by span(): every   *)
(* receive call takes at least one tick.                                   *)
(***************************************************************************)
EXTENDS Integers, Sequences, FiniteSets, TLC

\* ------------------------------------------------------------------ bounds

\* largest config.attempts explored
MaxAttempts == 2
\* largest config.timeout explored, in ticks
MaxTimeout == 3
\* number of send_message calls made on one resolver
MaxCalls == 2

\* ------------------------------------------------------- program constants

DNS_PORT == 53

\* ------------------------------------------------------------- addresses

V4(o) == [fam |-> "V4", a |-> o]
V6(s) == [fam |-> "V6", a |-> s]
SockAddr(ip, port) == [ip |-> ip, port |-> port]

\* a plausible slip: only the v4-mapped form is taken for a V4 address
HasIpv4MappedOnly(s) ==
    /\ \A i \in 1..5 : s[i] = 0
    /\ s[6] = 65535

\* Ipv6Addr::to_ipv4 : ::a.b.c.d and ::ffff:a.b.c.d reduce to a.b.c.d
HasIpv4(s) ==
    /\ \A i \in 1..5 : s[i] = 0
    /\ s[6] \in {0, 65535}

to_ipv4(s) == <<s[7] \div 256, s[7] % 256, s[8] \div 256, s[8] % 256>>

\* address.rs: address_equal
address_equal(a, b) ==
    CASE a.fam = "V4" /\ b.fam = "V4" -> a.a = b.a
      [] a.fam = "V6" /\ b.fam = "V6" -> a.a = b.a
      [] a.fam = "V6" /\ b.fam = "V4" -> HasIpv4(a.a) /\ to_ipv4(a.a) = b.a
      [] a.fam = "V4" /\ b.fam = "V6" -> HasIpv4(b.a) /\ to_ipv4(b.a) = a.a

\* address.rs: socket_address_equal
socket_address_equal(a, b) == a.port = b.port /\ address_equal(a.ip, b.ip)

\* socket.rs: the (V6, V4) arm of addresses_match
MatchV6V4(a, b) ==
    IF HasIpv4(a.ip.a) THEN to_ipv4(a.ip.a) = b.ip.a /\ a.port = b.port
    ELSE FALSE

\* a plausible slip: the port comparison of the mixed-family arms is lost
AddressesMatchNoPort(a, b) ==
    CASE a.ip.fam = "V4" /\ b.ip.fam = "V4" -> a = b
      [] a.ip.fam = "V6" /\ b.ip.fam = "V6" -> a = b
      [] a.ip.fam = "V6" /\ b.ip.fam = "V4" -> HasIpv4(a.ip.a) /\ to_ipv4(a.ip.a) = b.ip.a
      [] a.ip.fam = "V4" /\ b.ip.fam = "V6" -> HasIpv4(b.ip.a) /\ to_ipv4(b.ip.a) = a.ip.a

\* a plausible slip: endpoints are compared as they stand, a V4 source in
\* its v4-mapped form is not recognised
AddressesMatchStrict(a, b) == a = b

\* socket.rs: addresses_match
addresses_match(a, b) ==
    CASE a.ip.fam = "V4" /\ b.ip.fam = "V4" -> a = b
      [] a.ip.fam = "V6" /\ b.ip.fam = "V6" -> a = b
      [] a.ip.fam = "V6" /\ b.ip.fam = "V4" -> MatchV6V4(a, b)
      [] a.ip.fam = "V4" /\ b.ip.fam = "V6" -> MatchV6V4(b, a)

\* The endpoints of the model: 1.2.3.4:53, 1.2.3.5:53, and the first one in
\* its v4-mapped form, [::ffff:1.2.3.4]:53 (a configured server itself, and
\* the form in which a dual-stack socket reports a V4 source), with the same
\* address on another port.
ServerA == SockAddr(V4(<<1, 2, 3, 4>>), DNS_PORT)
ServerB == SockAddr(V4(<<1, 2, 3, 5>>), DNS_PORT)
ServerC == SockAddr(V6(<<0, 0, 0, 0, 0, 65535, 258, 772>>), DNS_PORT)
OtherPort == SockAddr(V6(<<0, 0, 0, 0, 0, 65535, 258, 772>>), DNS_PORT + 1)

Sources == {ServerA, ServerB, ServerC, OtherPort}

ServerLists == {<<ServerA>>, <<ServerA, ServerB, ServerC>>}

\* ------------------------------------------------------- messages, errors

\* message ids are 16 bits wide
IdLimit == 65536
\* the ids a received message may carry: that of out_msg and that of the
\* query made before it
IdsNear(id) == {id, (id + IdLimit - 1) % IdLimit}
\* message.rs 522: the value random() seeds the cell of generate_id with; the
\* largest one, after which the counter wraps
SeedIds == {65535}
Ids == UNION {IdsNear((seed + k) % IdLimit) : seed \in SeedIds, k \in 0..MaxCalls}
RCodes == {"NoError", "NameError"}

Msg(id, qr, rcode) == [id |-> id, qr |-> qr, rcode |-> rcode]
Msgs == [id : Ids, qr : {"Query", "Response"}, rcode : RCodes]
NoMsg == [id |-> -1, qr |-> "None", rcode |-> "None"]

\* A datagram: where it came from and what Message::decode makes of its bytes
\* (valid = FALSE: Message::decode fails on them).
Datagrams(id) == [src : Sources, valid : {TRUE},
                  msg : {m \in Msgs : m.id \in IdsNear(id)}]
                 \cup [src : Sources, valid : {FALSE}, msg : {NoMsg}]
NoDatagram == [src |-> SockAddr(V4(<<0, 0, 0, 0>>), 0), valid |-> FALSE, msg |-> NoMsg]

Error(kind, detail) == [kind |-> kind, detail |-> detail]
NoError == Error("None", "None")
TimedOut == Error("IoError", "TimedOut")
IoOther == Error("IoError", "Other")
InvalidInput == Error("IoError", "InvalidInput")
DecodeFailed == Error("DecodeError", "Any")
EncodeFailed == Error("EncodeError", "Any")
DnsError(rcode) == Error("DnsError", rcode)

\* a plausible slip: every I/O error is taken for a timeout
IsTimeoutAnyIo(e) == e.kind = "IoError"

\* Error::is_timeout, as send_message uses it (resolver.rs 211)
is_timeout(e) == e.kind = "IoError" /\ e.detail \in {"TimedOut", "WouldBlock"}

Ok(m) == [tag |-> "Ok", msg |-> m, err |-> NoError]
Err(e) == [tag |-> "Err", msg |-> NoMsg, err |-> e]
Panic == [tag |-> "Panic", msg |-> NoMsg, err |-> NoError]
NoResult == [tag |-> "None", msg |-> NoMsg, err |-> NoError]

\* message.rs: Message::get_error
get_error(m) == IF m.rcode = "NoError" THEN NoError ELSE DnsError(m.rcode)

\* ------------------------------------------------------------------ state

VARIABLES
    config,     \* DnsConfig: name_servers, attempts, timeout, rotate
    next_ns,    \* DnsResolver.next_ns
    pc,         \* where send_message stands: idle, retry, recv, done (returned)
    out_msg,    \* the message being sent
    retries,    \* the loop variable of 'retry
    ns_addr,    \* the server selected for the attempt
    timeout,    \* the remaining time of the attempt
    last_err,   \* the last timeout error
    result,     \* what send_message returned
    \* what the socket saw, for the statements about it
    calls,      \* send_message calls started
    sends,      \* calls of sock.send_message made by the current call
    timeouts,   \* receives of the current call the system ended with a timeout
    sent_to,    \* the target of every sock.send_message of this resolver
    rx,         \* the last datagram received in the current attempt
    rx_count,   \* datagrams received in the current attempt
    strays,     \* of these, those recv_message answered with Ok(None)
    elapsed,    \* time spent in the receives of the current attempt
    io,         \* the last socket operation and how it ended
    ID,         \* message.rs 522: the thread-local cell of generate_id
    \* MsgReader (message.rs) and the locals of read_name
    data,       \* the bytes under the reader's cursor
    position,   \* the cursor's position
    name_pc,    \* where read_name stands: idle, len, pointer, segment, finish, done
    start_pos,  \* read_name: position at which the name starts
    restore,    \* read_name: position to return to after a pointer, -1 for None
    res,        \* read_name: the text decoded so far
    total_read, \* read_name: length bytes and label bytes consumed
    len,        \* read_name: the length byte read last
    ptr_offset, \* read_name: the target of the pointer read last, -1 for none
    name_result,\* what read_name returned
    \* a resource record and its rdata (message.rs: read_resource, read_rdata)
    message,    \* the bytes of the message the record is read from
    resource,   \* the Resource read_resource returned
    rd_offset,  \* where the record's rdata starts in the message
    rd_pc,      \* none, resource, read_rdata, decode, done
    rd_result,  \* what read_rdata returned
    \* query_names (resolver.rs)
    host,       \* the name to resolve
    names,      \* the names still to be tried
    qn_pc,      \* idle, search, direct, done
    qn_err,     \* the error of the last failed name
    queried,    \* the names handed to the lookup so far
    qn_result,  \* what query_names returned
    \* the lookup of one name by resolve_host (resolver.rs 76-104)
    h_pc,       \* idle, first, second, end
    h_res,      \* res: the addresses collected for the name
    h_err,      \* err: the error kept for the name
    h_log,      \* the queries made for the name: type, addresses, error
    \* resolve_record and resolve_addr (resolver.rs 47-70, 110-129)
    rr_pc,      \* none, idle, record, addr, record_done, addr_done
    rr_arg,     \* the name or the address the call was given
    question,   \* the question of the message sent
    reply,      \* what send_message returned
    rr_result,  \* what the call returned
    \* MsgWriter (message.rs) and write_name
    w_pc,       \* none, idle, done
    w_name,     \* the name to write
    w_data,     \* the bytes written
    w_result,   \* what write_name returned
    \* address_equal, socket_address_equal (address.rs), addresses_match (socket.rs)
    a_pc,       \* none, idle, or the function that was applied
    a_left,     \* the first endpoint
    a_right,    \* the second endpoint
    a_fwd,      \* what the function returned for (a_left, a_right)
    a_rev,      \* what the function returned for (a_right, a_left)
    \* Message::encode and Message::decode (message.rs)
    m_pc,       \* none, idle, encoded, decoded
    m_msg,      \* the Message to encode
    m_cap,      \* the length of the buffer given to encode
    m_little,   \* the target of the build is little-endian
    m_bytes,    \* the bytes in the buffer after encode
    m_err,      \* what encode returned: None for Ok, or the error
    m_out       \* what decode returned

engineVars == <<config, next_ns, pc, out_msg, retries, ns_addr, timeout, last_err,
                result, calls, sends, timeouts, sent_to, rx, rx_count, strays,
                elapsed, io, ID>>

nameVars == <<data, position, name_pc, start_pos, restore, res, total_read, len,
              ptr_offset, name_result>>

rdataVars == <<message, resource, rd_offset, rd_pc, rd_result>>

searchVars == <<host, names, qn_pc, qn_err, queried, qn_result>>

hostVars == <<h_pc, h_res, h_err, h_log>>

recordVars == <<rr_pc, rr_arg, question, reply, rr_result>>

writerVars == <<w_pc, w_name, w_data, w_result>>

addrVars == <<a_pc, a_left, a_right, a_fwd, a_rev>>

msgVars == <<m_pc, m_msg, m_cap, m_little, m_bytes, m_err, m_out>>

otherVars == <<nameVars, rdataVars, searchVars, hostVars, recordVars, writerVars, addrVars, msgVars>>

vars == <<engineVars, nameVars, rdataVars, searchVars, hostVars, recordVars, writerVars, addrVars, msgVars>>

Io(op, r) == [op |-> op, res |-> r]

Configs == [name_servers : ServerLists, attempts : 0..MaxAttempts,
            timeout : 0..MaxTimeout, rotate : BOOLEAN,
            search : {<<>>}, n_dots : {1}, use_inet6 : {FALSE}]

\* resolv_conf.rs 39-52: a configuration with one server and no search list
RestConfig == [name_servers |-> <<ServerA>>, attempts |-> 2, timeout |-> 1,
               rotate |-> FALSE, search |-> <<>>, n_dots |-> 1, use_inet6 |-> FALSE]

\* DnsResolver::with_sock: a resolver on which nothing was called yet
EngineAtRest ==
    /\ next_ns = 0
    /\ pc = "idle"
    /\ out_msg = NoMsg
    /\ retries = 0
    /\ ns_addr = NoDatagram.src
    /\ timeout = 0
    /\ last_err = NoError
    /\ result = NoResult
    /\ calls = 0
    /\ sends = 0
    /\ timeouts = 0
    /\ sent_to = <<>>
    /\ rx = NoDatagram
    /\ rx_count = 0
    /\ strays = 0
    /\ elapsed = 0
    /\ io = Io("none", "none")
    /\ ID \in SeedIds

InitEngine ==
    /\ config \in Configs
    /\ EngineAtRest

IdleEngine ==
    /\ config = RestConfig
    /\ EngineAtRest

\* ---------------------------------------------------------- send_message

\* a plausible slip: the cursor is not advanced
NextCursorStuck(n) == n

\* resolver.rs: next_nameserver, the cursor after the call
NextCursor(n) == (n + 1) % Len(config.name_servers)

\* a plausible slip: the cursor is not consulted
SelectServerByRetries == config.name_servers[(retries % Len(config.name_servers)) + 1]

\* resolver.rs 181-186: the server of attempt `retries`
SelectServer ==
    IF config.rotate THEN config.name_servers[next_ns + 1]
    ELSE config.name_servers[(retries % Len(config.name_servers)) + 1]

\* a plausible slip: the cell is read and left as it is
GenerateIdSame(v) == [id |-> v, cell |-> v]

\* message.rs 519-528: generate_id returns the value of the cell and stores
\* value.wrapping_add(1) in it
generate_id(v) == [id |-> v, cell |-> (v + 1) % IdLimit]

\* resolver.rs 169-174, 177-178: the caller makes a message (basic_message:
\* Message::new, Header::new, generate_id) and send_message starts, on a new resolver or
\* after the previous call has returned (a panic ends the program)
Call ==
    /\ pc \in {"idle", "done"}
    /\ result.tag # "Panic"
    /\ calls < MaxCalls
    /\ out_msg' = Msg(generate_id(ID).id, "Query", "NoError")
    /\ ID' = generate_id(ID).cell
    /\ last_err' = NoError
    /\ retries' = 0
    /\ pc' = "retry"
    /\ result' = NoResult
    /\ calls' = calls + 1
    /\ sends' = 0
    /\ timeouts' = 0
    /\ rx' = NoDatagram
    /\ rx_count' = 0
    /\ strays' = 0
    /\ elapsed' = 0
    /\ io' = Io("none", "none")
    /\ ns_addr' = NoDatagram.src
    /\ timeout' = 0
    /\ UNCHANGED <<config, next_ns, sent_to>>
    /\ UNCHANGED otherVars

\* resolver.rs 180-192: one more attempt; the server is selected, the timeout
\* reset and sock.send_message called (send_res: how it ended)
Attempt ==
    /\ pc = "retry"
    /\ retries < config.attempts
    /\ ns_addr' = SelectServer
    /\ next_ns' = IF config.rotate THEN NextCursor(next_ns) ELSE next_ns
    /\ timeout' = config.timeout
    /\ rx' = NoDatagram
    /\ rx_count' = 0
    /\ strays' = 0
    /\ elapsed' = 0
    /\ sends' = sends + 1
    /\ sent_to' = Append(sent_to, ns_addr')
    /\ \E send_res \in {NoError, IoOther, EncodeFailed} :
         /\ io' = Io("send", send_res.detail)
         /\ IF send_res = NoError
            THEN /\ pc' = "recv"
                 /\ UNCHANGED result
            ELSE /\ pc' = "done"
                 /\ result' = Err(send_res)
    /\ UNCHANGED <<config, out_msg, retries, last_err, calls, timeouts>>
    /\ UNCHANGED <<ID, otherVars>>

\* resolver.rs 230: the attempts are used up
Exhausted ==
    /\ pc = "retry"
    /\ retries >= config.attempts
    /\ result' = IF last_err = NoError THEN Panic ELSE Err(last_err)
    /\ pc' = "done"
    /\ UNCHANGED <<config, next_ns, out_msg, retries, ns_addr, timeout, last_err,
                   calls, sends, timeouts, sent_to, rx, rx_count, strays, elapsed, io>>
    /\ UNCHANGED <<ID, otherVars>>

\* resolver.rs 195: std's set_read_timeout refuses a zero Duration with an
\* InvalidInput error, which try! returns
SetReadTimeoutZero ==
    /\ pc = "recv"
    /\ timeout = 0
    /\ io' = Io("set_read_timeout", "InvalidInput")
    /\ result' = Err(InvalidInput)
    /\ pc' = "done"
    /\ UNCHANGED <<config, next_ns, out_msg, retries, ns_addr, timeout, last_err,
                   calls, sends, timeouts, sent_to, rx, rx_count, strays, elapsed>>
    /\ UNCHANGED <<ID, otherVars>>

\* a plausible slip: the time of the receive is not taken off
RemainingUntouched(t, passed) == t

\* resolver.rs 222-226: the time left after a receive that took `passed`
Remaining(t, passed) == IF t < passed THEN 0 ELSE t - passed

\* resolver.rs 203-204: is this the reply to out_msg
Relevant(m) == m.id = out_msg.id /\ m.qr = "Response"

\* socket.rs 50-57 with a slip: the datagram is decoded before its source is
\* compared with the server, so that the bytes of a stranger can fail the call
RecvDatagramDecodeFirst ==
    /\ pc = "recv"
    /\ timeout > 0
    /\ \E d \in Datagrams(out_msg.id), passed \in 1..(timeout + 1) :
         /\ rx' = d
         /\ rx_count' = rx_count + 1
         /\ elapsed' = elapsed + passed
         /\ io' = Io("recv", "datagram")
         /\ IF ~d.valid
            THEN /\ result' = Err(DecodeFailed)
                 /\ pc' = "done"
                 /\ UNCHANGED <<strays, timeout>>
            ELSE IF ~addresses_match(d.src, ns_addr)
            THEN /\ strays' = strays + 1
                 /\ timeout' = Remaining(timeout, passed)
                 /\ UNCHANGED <<pc, result>>
            ELSE /\ UNCHANGED strays
                 /\ IF Relevant(d.msg)
                    THEN /\ result' = IF get_error(d.msg) = NoError THEN Ok(d.msg)
                                      ELSE Err(get_error(d.msg))
                         /\ pc' = "done"
                         /\ UNCHANGED timeout
                    ELSE /\ timeout' = Remaining(timeout, passed)
                         /\ UNCHANGED <<pc, result>>
    /\ UNCHANGED <<config, next_ns, out_msg, retries, ns_addr, last_err,
                   calls, sends, timeouts, sent_to>>
    /\ UNCHANGED <<ID, otherVars>>

\* resolver.rs 195-226 with socket.rs 50-57: a datagram arrives after `passed`
RecvDatagram ==
    /\ pc = "recv"
    /\ timeout > 0
    /\ \E d \in Datagrams(out_msg.id), passed \in 1..(timeout + 1) :
         /\ rx' = d
         /\ rx_count' = rx_count + 1
         /\ elapsed' = elapsed + passed
         /\ io' = Io("recv", "datagram")
         /\ IF ~addresses_match(d.src, ns_addr)
            THEN \* Ok(None)
                 /\ strays' = strays + 1
                 /\ timeout' = Remaining(timeout, passed)
                 /\ UNCHANGED <<pc, result>>
            ELSE /\ UNCHANGED strays
                 /\ IF ~d.valid
                    THEN \* Message::decode failed
                         /\ result' = Err(DecodeFailed)
                         /\ pc' = "done"
                         /\ UNCHANGED timeout
                    ELSE IF Relevant(d.msg)
                    THEN /\ result' = IF get_error(d.msg) = NoError THEN Ok(d.msg)
                                      ELSE Err(get_error(d.msg))
                         /\ pc' = "done"
                         /\ UNCHANGED timeout
                    ELSE /\ timeout' = Remaining(timeout, passed)
                         /\ UNCHANGED <<pc, result>>
    /\ UNCHANGED <<config, next_ns, out_msg, retries, ns_addr, last_err,
                   calls, sends, timeouts, sent_to>>
    /\ UNCHANGED <<ID, otherVars>>

\* the errors the operating system ends a receive with: a timeout shows as
\* TimedOut or as WouldBlock
RecvErrors == {TimedOut, Error("IoError", "WouldBlock"), IoOther}

\* resolver.rs 209-217 with a slip: the timeout goes on with the inner loop
\* (continue without its label), so nothing is sent again
RecvErrorSameAttempt ==
    /\ pc = "recv"
    /\ timeout > 0
    /\ \E e \in RecvErrors :
         /\ io' = Io("recv", e.detail)
         /\ timeouts' = timeouts + (IF e = IoOther THEN 0 ELSE 1)
         /\ IF is_timeout(e)
            THEN /\ last_err' = e
                 /\ UNCHANGED <<pc, result, retries>>
            ELSE /\ result' = Err(e)
                 /\ pc' = "done"
                 /\ UNCHANGED <<retries, last_err>>
    /\ UNCHANGED <<config, next_ns, out_msg, ns_addr, timeout,
                   calls, sends, sent_to, rx, rx_count, strays, elapsed>>
    /\ UNCHANGED <<ID, otherVars>>

\* resolver.rs 209-217: the receive failed; a timeout leads to the next
\* attempt, any other error is returned
RecvError ==
    /\ pc = "recv"
    /\ timeout > 0
    /\ \E e \in RecvErrors :
         /\ io' = Io("recv", e.detail)
         /\ timeouts' = timeouts + (IF e = IoOther THEN 0 ELSE 1)
         /\ IF is_timeout(e)
            THEN /\ last_err' = e
                 /\ retries' = retries + 1
                 /\ pc' = "retry"
                 /\ UNCHANGED result
            ELSE /\ result' = Err(e)
                 /\ pc' = "done"
                 /\ UNCHANGED <<retries, last_err>>
    /\ UNCHANGED <<config, next_ns, out_msg, ns_addr, timeout,
                   calls, sends, sent_to, rx, rx_count, strays, elapsed>>
    /\ UNCHANGED <<ID, otherVars>>

NextEngine ==
    \/ Call
    \/ Attempt
    \/ Exhausted
    \/ SetReadTimeoutZero
    \/ RecvDatagram
    \/ RecvError

\* ------------------------------------------------- MsgReader: read_name

\* message.rs 25: maximum total length of a name, in encoded format
NAME_LIMIT == 255

\* longest byte sequence handed to the reader
MaxMsgLen == 4

\* The bytes messages are made of: the end of a name, the label lengths 1 and
\* 2 (as label contents: control characters), '-', '@' (as a length: top bits
\* 01), 'a', 0x80 (top bits 10, not ASCII) and 0xC0 (the pointer mark).
NameBytes == {0, 1, 2, 45, 64, 97, 128, 192}

ByteSeqs(S, n) == UNION {[1..k -> S] : k \in 0..n}

NameOk(s) == [tag |-> "Ok", name |-> s, err |-> "None"]
NameErr(e) == [tag |-> "Err", name |-> <<>>, err |-> e]
NoName == [tag |-> "None", name |-> <<>>, err |-> "None"]

\* a reader over `bytes`, its cursor at `at`, on which nothing was called yet
NewReader(bytes, at) ==
    /\ data = bytes
    /\ position = at
    /\ name_pc = "idle"
    /\ start_pos = 0
    /\ restore = -1
    /\ res = <<>>
    /\ total_read = 0
    /\ len = 0
    /\ ptr_offset = -1
    /\ name_result = NoName

\* message.rs 176, 194: the top two bits of a length byte
TopBits(b) == b \div 64

\* message.rs 226: <[u8]>::is_ascii
is_ascii(seg) == \A i \in 1..Len(seg) : seg[i] < 128

\* char::is_whitespace and char::is_control, on ASCII
is_whitespace(c) == c \in 9..13 \/ c = 32
is_control(c) == c < 32 \/ c = 127

\* message.rs 542-545: is_valid_segment ('-' is 45)
is_valid_segment(seg) ==
    /\ ~(seg # <<>> /\ (seg[1] = 45 \/ seg[Len(seg)] = 45))
    /\ \A i \in 1..Len(seg) : ~(is_whitespace(seg[i]) \/ is_control(seg[i]))

\* ---------------------------------------------------------------- idna.rs

\* idna.rs 75-81: the parameters of Punycode
BASE == 36
T_MIN == 1
T_MAX == 26
SKEW == 38
DAMP == 700
INITIAL_BIAS == 72
INITIAL_N == 128

\* The arithmetic of decode and encode is that of u32, where checked_mul and
\* checked_add give None from 2^32 on. The labels of this model are short:
\* no value computed for them reaches 2^31, so that these branches are left
\* out (an evaluation that reached 2^31 would stop the check with an error).

IdnaOk(s) == [err |-> FALSE, value |-> s]
IdnaErr == [err |-> TRUE, value |-> <<>>]

\* idna.rs 265-272: from_digit, -1 standing for None
from_digit(c) ==
    IF c \in 97..122 THEN c - 97
    ELSE IF c \in 65..90 THEN c - 65
    ELSE IF c \in 48..57 THEN c - 48 + 26
    ELSE -1

\* idna.rs 274-280: to_digit
to_digit(n) == IF n <= 25 THEN n + 97 ELSE n - 26 + 48

\* idna.rs 148-152, 235-239: the threshold of the digit at position k
Threshold(k, bias) ==
    IF k <= bias THEN T_MIN
    ELSE IF k >= bias + T_MAX THEN T_MAX
    ELSE k - bias

\* idna.rs 94-99: the loop of adapt
RECURSIVE AdaptLoop(_, _)
AdaptLoop(delta, k) ==
    IF delta > ((BASE - T_MIN) * T_MAX) \div 2
    THEN AdaptLoop(delta \div (BASE - T_MIN), k + BASE)
    ELSE k + (((BASE - T_MIN + 1) * delta) \div (delta + SKEW))

\* idna.rs 83-100: adapt
adapt(delta, num_points, first_time) ==
    LET d == IF first_time THEN delta \div DAMP ELSE delta \div 2
    IN  AdaptLoop(d + d \div num_points, 0)

\* std: char::from_u32 is Some for the scalar values
is_char(n) == n <= 1114111 /\ n \notin 55296..57343

\* Vec::insert
InsertAt(s, i, c) == SubSeq(s, 1, i) \o <<c>> \o SubSeq(s, i + 1, Len(s))

\* idna.rs 132-163: the digits of one generalized variable-length integer
\* are read and added to i
RECURSIVE DecodeDigits(_, _, _, _, _)
DecodeDigits(s, i, w, k, bias) ==
    IF s = <<>> THEN [err |-> TRUE, i |-> 0, rest |-> <<>>]
    ELSE LET digit == from_digit(Head(s))
             t == Threshold(k, bias)
         IN  IF digit = -1
             THEN [err |-> TRUE, i |-> 0, rest |-> <<>>]
             ELSE IF digit < t
             THEN [err |-> FALSE, i |-> digit * w + i, rest |-> Tail(s)]
             ELSE DecodeDigits(Tail(s), digit * w + i, w * (BASE - t), k + BASE, bias)

\* idna.rs 127-176: the main loop of decode, one inserted character a turn
RECURSIVE DecodeLoop(_, _, _, _, _)
DecodeLoop(s, output, n, i, bias) ==
    IF s = <<>> THEN IdnaOk(output)
    ELSE LET v == DecodeDigits(s, i, 1, BASE, bias)
             points == Len(output) + 1
         IN  IF v.err THEN IdnaErr
             ELSE LET m == n + v.i \div points
                  IN  IF ~is_char(m) THEN IdnaErr
                      ELSE DecodeLoop(v.rest, InsertAt(output, v.i % points, m), m,
                                      (v.i % points) + 1,
                                      adapt(v.i - i, points, i = 0))

\* <[u8]>::rposition_elem(&b'-'), the last '-' of s as an index from 1, or 0
LastDelimiter(s) ==
    IF \E j \in 1..Len(s) : s[j] = 45
    THEN CHOOSE j \in 1..Len(s) : s[j] = 45 /\ \A h \in (j + 1)..Len(s) : s[h] # 45
    ELSE 0

\* idna.rs 103-179: decode, from Punycode to the characters of a label
decode(s) ==
    LET pos == LastDelimiter(s)
    IN  IF pos = 1 THEN IdnaErr
        ELSE IF pos # 0 /\ ~is_ascii(SubSeq(s, 1, pos - 1)) THEN IdnaErr
        ELSE DecodeLoop(SubSeq(s, pos + 1, Len(s)),
                        IF pos = 0 THEN <<>> ELSE SubSeq(s, 1, pos - 1),
                        INITIAL_N, 0, INITIAL_BIAS)

\* idna.rs 232-251: the digits of delta are written
RECURSIVE EncodeDigits(_, _, _)
EncodeDigits(q, k, bias) ==
    LET t == Threshold(k, bias)
    IN  IF q < t THEN <<to_digit(q)>>
        ELSE <<to_digit(t + ((q - t) % (BASE - t)))>>
             \o EncodeDigits((q - t) \div (BASE - t), k + BASE, bias)

\* idna.rs 224-256: the loop over the characters of the label for one value
\* of n; st holds output, delta, bias, h and the error flag
RECURSIVE EncodeChars(_, _, _, _)
EncodeChars(chars, n, b, st) ==
    IF chars = <<>> \/ st.err THEN st
    ELSE LET c == Head(chars)
         IN  IF c < n
             THEN EncodeChars(Tail(chars), n, b,
                              [st EXCEPT !.delta = st.delta + 1])
             ELSE IF c = n
             THEN EncodeChars(Tail(chars), n, b,
                              [st EXCEPT
                                 !.output = st.output \o EncodeDigits(st.delta, BASE, st.bias),
                                 !.bias = adapt(st.delta, st.h + 1, st.h = b),
                                 !.delta = 0,
                                 !.h = st.h + 1])
             ELSE EncodeChars(Tail(chars), n, b, st)

\* the least character of the label that is at least n, or -1
MinFrom(chars, n) ==
    LET S == {c \in {chars[j] : j \in 1..Len(chars)} : c >= n}
    IN  IF S = {} THEN -1 ELSE CHOOSE c \in S : \A d \in S : c <= d

\* idna.rs 210-260: the main loop of encode
RECURSIVE EncodeLoop(_, _, _, _)
EncodeLoop(chars, n, b, st) ==
    IF st.err THEN IdnaErr
    ELSE IF st.h >= Len(chars) THEN IdnaOk(st.output)
    ELSE LET min == MinFrom(chars, n)
             delta == st.delta + (min - n) * (st.h + 1)
         IN  IF min = -1 THEN IdnaErr
             ELSE LET after == EncodeChars(chars, min, b, [st EXCEPT !.delta = delta])
                  IN  EncodeLoop(chars, min + 1, b,
                                 [after EXCEPT !.delta = after.delta + 1])

\* idna.rs 183-263: encode, from the characters of a label to Punycode
encode(s) ==
    IF is_ascii(s) THEN IdnaErr
    ELSE LET basic == SelectSeq(s, LAMBDA c : c < 128)
             b == Len(basic)
         IN  EncodeLoop(s, INITIAL_N, b,
                        [output |-> IF b = 0 THEN <<>> ELSE basic \o <<45>>,
                         delta |-> 0, bias |-> INITIAL_BIAS, h |-> b, err |-> FALSE])

\* "xn--"
AcePrefix == <<120, 110, 45, 45>>

\* u8::to_ascii_lowercase
to_ascii_lowercase(c) == IF c \in 65..90 THEN c + 32 ELSE c

\* idna.rs 285-288: starts_with_ascii_lowercase
starts_with_ascii_lowercase(s, prefix) ==
    /\ Len(s) >= Len(prefix)
    /\ \A j \in 1..Len(prefix) : to_ascii_lowercase(s[j]) = prefix[j]

\* idna.rs 56-62: to_ascii leaves an ASCII label as it is
to_ascii(s) ==
    IF is_ascii(s) THEN IdnaOk(s)
    ELSE IF encode(s).err THEN IdnaErr
    ELSE IdnaOk(AcePrefix \o encode(s).value)

\* idna.rs 67-73: to_unicode decodes the labels that begin with "xn--"
to_unicode(s) ==
    IF ~starts_with_ascii_lowercase(s, AcePrefix) THEN IdnaOk(s)
    ELSE decode(SubSeq(s, 5, Len(s)))

\* a plausible slip: a pointer to the start of the name itself is followed
PointerAllowedAtStart(offset, start) == offset <= start

\* message.rs 184-186: a pointer is followed if it points before the start of
\* the name
PointerAllowed(offset, start) == offset < start

\* message.rs 157-164: read_name is called
ReadName ==
    /\ name_pc = "idle"
    /\ start_pos' = position
    /\ restore' = -1
    /\ res' = <<>>
    /\ total_read' = 0
    /\ len' = 0
    /\ ptr_offset' = -1
    /\ name_result' = NoName
    /\ name_pc' = "len"
    /\ UNCHANGED <<data, position>>
    /\ UNCHANGED <<engineVars, rdataVars, searchVars>>
    /\ UNCHANGED <<hostVars, recordVars, writerVars, addrVars, msgVars>>

\* read_name returns Err(e)
NameFails(e) ==
    /\ name_result' = NameErr(e)
    /\ name_pc' = "done"

\* message.rs 167-201: the head of the loop, which reads a length byte
ReadLen ==
    /\ name_pc = "len"
    /\ IF position >= Len(data)
       THEN /\ NameFails("ShortMessage")
            /\ UNCHANGED <<position, len, total_read>>
       ELSE LET b == data[position + 1]
            IN  /\ position' = position + 1
                /\ len' = b
                /\ IF b = 0
                   THEN /\ IF total_read + 1 > NAME_LIMIT
                           THEN NameFails("InvalidName")
                           ELSE name_pc' = "finish" /\ UNCHANGED name_result
                        /\ UNCHANGED total_read
                   ELSE IF TopBits(b) = 3
                   THEN /\ name_pc' = "pointer"
                        /\ UNCHANGED <<name_result, total_read>>
                   ELSE IF TopBits(b) # 0
                   THEN /\ NameFails("InvalidMessage")
                        /\ UNCHANGED total_read
                   ELSE IF total_read + 1 + b > NAME_LIMIT
                   THEN /\ NameFails("InvalidName")
                        /\ UNCHANGED total_read
                   ELSE /\ total_read' = total_read + 1 + b
                        /\ name_pc' = "segment"
                        /\ UNCHANGED name_result
    /\ UNCHANGED <<data, start_pos, restore, res, ptr_offset>>
    /\ UNCHANGED <<engineVars, rdataVars, searchVars>>
    /\ UNCHANGED <<hostVars, recordVars, writerVars, addrVars, msgVars>>

\* a plausible slip: the reader resumes after the last pointer followed
ResumeAfterLast(old, new) == new

\* message.rs 188-190: the position to resume at is that after the first
\* pointer (restore is None, here -1, until a pointer is followed)
ResumeAfterFirst(old, new) == IF old = -1 THEN new ELSE old

\* message.rs 178-193: the second byte of a pointer is read and the pointer
\* followed
ReadPointer ==
    /\ name_pc = "pointer"
    /\ IF position >= Len(data)
       THEN /\ NameFails("ShortMessage")
            /\ UNCHANGED <<position, restore, ptr_offset>>
       ELSE LET hi == len % 64
                lo == data[position + 1]
                offset == hi * 256 + lo
            IN  /\ ptr_offset' = offset
                /\ IF ~PointerAllowed(offset, start_pos)
                   THEN /\ NameFails("InvalidName")
                        /\ position' = position + 1
                        /\ UNCHANGED restore
                   ELSE /\ restore' = ResumeAfterFirst(restore, position + 1)
                        /\ position' = offset
                        /\ name_pc' = "len"
                        /\ UNCHANGED name_result
    /\ UNCHANGED <<data, start_pos, res, total_read, len>>
    /\ UNCHANGED <<engineVars, rdataVars, searchVars>>
    /\ UNCHANGED <<hostVars, recordVars, writerVars, addrVars, msgVars>>

\* message.rs 203, 219-245: read_segment appends a label and a dot
ReadSegment ==
    /\ name_pc = "segment"
    /\ IF position + len > Len(data)
       THEN /\ NameFails("ShortMessage")
            /\ position' = Len(data)
            /\ UNCHANGED res
       ELSE LET seg == SubSeq(data, position + 1, position + len)
            IN  /\ position' = position + len
                /\ IF ~is_ascii(seg) \/ ~is_valid_segment(seg) \/ to_unicode(seg).err
                   THEN /\ NameFails("InvalidName")
                        /\ UNCHANGED res
                   ELSE /\ res' = res \o to_unicode(seg).value \o <<46>>
                        /\ name_pc' = "len"
                        /\ UNCHANGED name_result
    /\ UNCHANGED <<data, start_pos, restore, total_read, len, ptr_offset>>
    /\ UNCHANGED <<engineVars, rdataVars, searchVars>>
    /\ UNCHANGED <<hostVars, recordVars, writerVars, addrVars, msgVars>>

\* message.rs 206-216: the end of the name was read
FinishName ==
    /\ name_pc = "finish"
    /\ res' = IF res = <<>> THEN <<46>> ELSE res
    /\ position' = IF restore # -1 THEN restore ELSE position
    /\ name_result' = NameOk(res')
    /\ name_pc' = "done"
    /\ UNCHANGED <<data, start_pos, restore, total_read, len, ptr_offset>>
    /\ UNCHANGED <<engineVars, rdataVars, searchVars>>
    /\ UNCHANGED <<hostVars, recordVars, writerVars, addrVars, msgVars>>

NextName ==
    \/ ReadName
    \/ ReadLen
    \/ ReadPointer
    \/ ReadSegment
    \/ FinishName

\* --------------------------------- resource records: read_resource, read_rdata

\* message.rs 259: the header of a message takes 12 bytes
HeaderLen == 12

\* longest rdata of a record
MaxRdataLen == 3

\* record.rs 89-92: the types whose rdata is one name (CName, Ns, Ptr)
NameRecordTypes == {2, 5, 12}

\* the bytes rdata is made of: the end of a name, a label length, an offset
\* (that of the question's name), 'a' and the pointer mark
RdataBytes == {0, 1, HeaderLen, 97, 192}

\* What precedes the record in the message: nothing, the name "a." alone, or
\* a header and a question (name "a.", type Ptr, class Internet).
Prefixes == {<<>>, <<1, 97, 0>>,
             [i \in 1..HeaderLen |-> 0] \o <<1, 97, 0>> \o <<0, 12, 0, 1>>}

\* the encoded name of the record: the root, "a.", or a pointer to offset 0
OwnerNames == {<<0>>, <<1, 97, 0>>, <<192, 0>>}

\* message.rs 136-140: read_u16, big endian
read_u16(b1, b2) == b1 * 256 + b2

\* the bytes of a record: name, type, class (Internet), ttl, length, rdata
RecordBytes(owner, rtype, length, rdata) ==
    owner \o <<rtype \div 256, rtype % 256>> \o <<0, 1>> \o <<0, 0, 0, 0>>
          \o <<length \div 256, length % 256>> \o rdata

NoResource == [tag |-> "None", name |-> <<>>, r_type |-> 0, r_class |-> 0,
               ttl |-> 0, data |-> <<>>, err |-> "None"]
ResourceErr(e) == [NoResource EXCEPT !.tag = "Err", !.err = e]

\* no record is being read
NoRecord ==
    /\ message = <<>>
    /\ resource = NoResource
    /\ rd_offset = -1
    /\ rd_pc = "none"
    /\ rd_result = NoName

\* message.rs 327-351: read_resource, once its read_name has returned
ReadResource ==
    /\ rd_pc = "resource"
    /\ name_pc = "done"
    /\ IF name_result.tag = "Err"
       THEN /\ resource' = ResourceErr(name_result.err)
            /\ rd_pc' = "done"
            /\ UNCHANGED <<position, rd_offset>>
       ELSE IF position + 10 > Len(data)
       THEN /\ resource' = ResourceErr("ShortMessage")
            /\ rd_pc' = "done"
            /\ position' = Len(data)
            /\ UNCHANGED rd_offset
       ELSE LET p == position
                length == read_u16(data[p + 9], data[p + 10])
            IN  IF p + 10 + length > Len(data)
                THEN /\ resource' = ResourceErr("ShortMessage")
                     /\ rd_pc' = "done"
                     /\ position' = Len(data)
                     /\ UNCHANGED rd_offset
                ELSE /\ resource' =
                          [tag |-> "Ok", name |-> name_result.name,
                           r_type |-> read_u16(data[p + 1], data[p + 2]),
                           r_class |-> read_u16(data[p + 3], data[p + 4]),
                           ttl |-> read_u16(data[p + 5], data[p + 6]) * 65536
                                   + read_u16(data[p + 7], data[p + 8]),
                           data |-> SubSeq(data, p + 11, p + 10 + length),
                           err |-> "None"]
                     /\ rd_offset' = p + 10
                     /\ position' = p + 10 + length
                     /\ rd_pc' = "read_rdata"
    /\ UNCHANGED <<data, name_pc, start_pos, restore, res, total_read, len,
                   ptr_offset, name_result>>
    /\ UNCHANGED <<message, rd_result>>
    /\ UNCHANGED <<engineVars, searchVars>>
    /\ UNCHANGED <<hostVars, recordVars, writerVars, addrVars, msgVars>>

\* message.rs 874-876: read_rdata makes a reader over the record's data and
\* hands it to Record::decode, which for CName, Ns and Ptr is read_name
ReadRdata ==
    /\ rd_pc = "read_rdata"
    /\ resource.r_type \in NameRecordTypes
    /\ data' = resource.data
    /\ position' = 0
    /\ name_pc' = "idle"
    /\ start_pos' = 0
    /\ restore' = -1
    /\ res' = <<>>
    /\ total_read' = 0
    /\ len' = 0
    /\ ptr_offset' = -1
    /\ name_result' = NoName
    /\ rd_pc' = "decode"
    /\ UNCHANGED <<message, resource, rd_offset, rd_result>>
    /\ UNCHANGED <<engineVars, searchVars>>
    /\ UNCHANGED <<hostVars, recordVars, writerVars, addrVars, msgVars>>

\* message.rs 99-102, 249-255: MsgReader::finish
finish(bytes, at) == IF Len(bytes) - at = 0 THEN "None" ELSE "ExtraneousData"

\* message.rs 876-878: Record::decode has returned
FinishRdata ==
    /\ rd_pc = "decode"
    /\ name_pc = "done"
    /\ rd_result' =
         IF name_result.tag = "Err" THEN NameErr(name_result.err)
         ELSE IF finish(data, position) # "None" THEN NameErr(finish(data, position))
         ELSE NameOk(name_result.name)
    /\ rd_pc' = "done"
    /\ UNCHANGED <<message, resource, rd_offset>>
    /\ UNCHANGED <<engineVars, nameVars, searchVars>>
    /\ UNCHANGED <<hostVars, recordVars, writerVars, addrVars, msgVars>>

NextRdata ==
    \/ ReadName
    \/ ReadLen
    \/ ReadPointer
    \/ ReadSegment
    \/ FinishName
    \/ ReadResource
    \/ ReadRdata
    \/ FinishRdata

\* ------------------------------------------------------------ query_names

\* largest config.n_dots explored
MaxNDots == 2

\* A name is the sequence of its labels and dots, "foo.bar" being
\* <<"foo", ".", "bar">>: a label holds no dot.
Dot == "."
ExampleCom == <<"example", Dot, "com">>

Hosts == {<<"foo">>, <<"foo", Dot>>, <<"foo", Dot, "bar">>,
          <<"foo", Dot, "bar", Dot>>, <<"a", Dot, "b", Dot, "c">>}

SearchLists == {<<>>, <<ExampleCom>>, <<ExampleCom, <<"test">>>>}

SearchConfigs == [name_servers : {<<ServerA>>}, attempts : {1}, timeout : {1},
                  rotate : {FALSE}, search : SearchLists, n_dots : 0..MaxNDots,
                  use_inet6 : {FALSE}]

\* the errors a lookup of one name ends with
LookupErrors == {DnsError("NameError"), TimedOut}

NotFound == Error("IoError", "Other")

QnOk(name) == [tag |-> "Ok", name |-> name, err |-> NoError]
QnErr(e) == [tag |-> "Err", name |-> <<>>, err |-> e]
QnNone == [tag |-> "None", name |-> <<>>, err |-> NoError]

\* query_names is not running
NoQuery ==
    /\ host = <<>>
    /\ names = <<>>
    /\ qn_pc = "none"
    /\ qn_err = NoError
    /\ queried = <<>>
    /\ qn_result = QnNone

\* resolver.rs 252: name.ends_with('.')
ends_with_dot(name) == Len(name) > 0 /\ name[Len(name)] = Dot

\* resolver.rs 253-254: name.chars().filter(|&c| c == '.').count()
count_dots(name) == Cardinality({i \in 1..Len(name) : name[i] = Dot})

\* resolver.rs 252-254: use_search
use_search(name, n_dots) == ~ends_with_dot(name) /\ count_dots(name) >= n_dots

\* resolver.rs 277-282: with_suffixes
with_suffixes(name, suffixes) ==
    [i \in 1..Len(suffixes) |-> name \o <<Dot>> \o suffixes[i]] \o <<name>>

\* resolver.rs 250-257, 273: query_names is called
QueryNames ==
    /\ qn_pc = "idle"
    /\ IF use_search(host, config.n_dots)
       THEN /\ names' = with_suffixes(host, config.search)
            /\ qn_pc' = "search"
       ELSE /\ names' = <<host>>
            /\ qn_pc' = "direct"
    /\ qn_err' = NoError
    /\ UNCHANGED <<host, queried, qn_result>>
    /\ UNCHANGED <<engineVars, nameVars, rdataVars>>
    /\ UNCHANGED <<hostVars, recordVars, writerVars, addrVars, msgVars>>

\* resolver.rs 259-264, 273: the lookup f is called with the next name and
\* answers or fails
LookupName ==
    /\ qn_pc \in {"search", "direct"}
    /\ names # <<>>
    /\ queried' = Append(queried, Head(names))
    /\ names' = Tail(names)
    /\ \E e \in {NoError} \cup LookupErrors :
         IF e = NoError
         THEN /\ qn_result' = QnOk(Head(names))
              /\ qn_pc' = "done"
              /\ UNCHANGED qn_err
         ELSE IF qn_pc = "direct"
         THEN /\ qn_result' = QnErr(e)
              /\ qn_pc' = "done"
              /\ UNCHANGED qn_err
         ELSE /\ qn_err' = e
              /\ UNCHANGED <<qn_pc, qn_result>>
    /\ UNCHANGED host
    /\ UNCHANGED <<engineVars, nameVars, rdataVars>>
    /\ UNCHANGED <<hostVars, recordVars, writerVars, addrVars, msgVars>>

\* resolver.rs 266-271: every name of the search has failed (the lookup of
\* the last one has returned)
SearchFailed ==
    /\ qn_pc = "search"
    /\ names = <<>>
    /\ h_pc = "idle"
    /\ qn_result' = IF qn_err # NoError THEN QnErr(qn_err) ELSE QnErr(NotFound)
    /\ qn_pc' = "done"
    /\ UNCHANGED <<host, names, qn_err, queried>>
    /\ UNCHANGED <<engineVars, nameVars, rdataVars>>
    /\ UNCHANGED <<hostVars, recordVars, writerVars, addrVars, msgVars>>

NextSearch ==
    \/ QueryNames
    \/ LookupName
    \/ SearchFailed

\* ------------------------------------- records of a reply and their rdata

\* record.rs 86-96: the codes of the record types
RecordTypeA == 1
RecordTypeAAAA == 28
RecordTypeCName == 5
RecordTypePtr == 12

\* a resource record of a reply, as far as the resolver looks at it
Rr(t, d) == [r_type |-> t, data |-> d]

\* a reply: the three record sections of the Message send_message returned
Reply(an, au, ad) == [answer |-> an, authority |-> au, additional |-> ad]
NoReply == Reply(<<>>, <<>>, <<>>)

\* message.rs 674-683, 706-713: into_records yields the answer records, then
\* the authority records, then the additional records
into_records(m) == m.answer \o m.authority \o m.additional

Decoded(v) == [err |-> "None", value |-> v]
DecodeErr(e) == [err |-> e, value |-> <<>>]

\* message.rs 874-879 with record.rs 117-122: read_rdata::<A>
read_rdata_A(d) ==
    IF Len(d) < 4 THEN DecodeErr("ShortMessage")
    ELSE IF finish(d, 4) # "None" THEN DecodeErr(finish(d, 4))
    ELSE Decoded(V4(SubSeq(d, 1, 4)))

\* message.rs 874-879 with record.rs 138-148: read_rdata::<AAAA>
read_rdata_AAAA(d) ==
    IF Len(d) < 16 THEN DecodeErr("ShortMessage")
    ELSE IF finish(d, 16) # "None" THEN DecodeErr(finish(d, 16))
    ELSE Decoded(V6([i \in 1..8 |-> read_u16(d[2 * i - 1], d[2 * i])]))

\* std: Ipv4Addr::to_ipv6_mapped, a.b.c.d becomes ::ffff:a.b.c.d
to_ipv6_mapped(ip) ==
    V6(<<0, 0, 0, 0, 0, 65535, ip.a[1] * 256 + ip.a[2], ip.a[3] * 256 + ip.a[4]>>)

\* what a query ends with: the reply, or the error of send_message
Sent(m) == [err |-> NoError, msg |-> m]
SendFailed(e) == [err |-> e, msg |-> NoReply]

\* ----------------------------------------------------------- resolve_host

A1 == Rr(RecordTypeA, <<1, 2, 3, 4>>)
A2 == Rr(RecordTypeA, <<1, 2, 3, 5>>)
ABad == Rr(RecordTypeA, <<1, 2, 3>>)
Q1 == Rr(RecordTypeAAAA, <<32, 1, 13, 184, 0, 0, 0, 0, 0, 0, 0, 0, 0, 0, 0, 1>>)
QBad == Rr(RecordTypeAAAA, <<32, 1, 13, 184>>)
CN == Rr(RecordTypeCName, <<1, 97, 0>>)

\* the replies a query for addresses gets: no record, one record of any
\* kind, and records of several kinds in several sections
HostReplies ==
    {NoReply}
    \cup {Reply(<<r>>, <<>>, <<>>) : r \in {A1, ABad, Q1, QBad, CN}}
    \cup {Reply(<<CN, A1>>, <<>>, <<A2>>), Reply(<<A1>>, <<ABad>>, <<>>),
          Reply(<<Q1>>, <<>>, <<QBad>>), Reply(<<A1>>, <<>>, <<Q1>>)}

HostOutcomes == {Sent(m) : m \in HostReplies} \cup {SendFailed(e) : e \in LookupErrors}

HostNames == {<<"foo">>, <<"foo", Dot>>}

HostConfigs == [name_servers : {<<ServerA>>}, attempts : {1}, timeout : {1},
                rotate : {FALSE}, search : SearchLists, n_dots : {0, 1},
                use_inet6 : BOOLEAN]

\* resolver.rs 138-145, 157-164: the loop over the records of a reply; the
\* addresses handed to f before a record fails to decode stay with the caller
RECURSIVE Collect(_, _)
Collect(records, t) ==
    IF records = <<>> THEN [addrs |-> <<>>, err |-> NoError]
    ELSE LET rr == Head(records)
         IN  IF rr.r_type # t THEN Collect(Tail(records), t)
             ELSE LET a == IF t = RecordTypeA THEN read_rdata_A(rr.data)
                           ELSE read_rdata_AAAA(rr.data)
                  IN  IF a.err # "None"
                      THEN [addrs |-> <<>>, err |-> Error("DecodeError", a.err)]
                      ELSE LET rest == Collect(Tail(records), t)
                           IN  [addrs |-> <<a.value>> \o rest.addrs, err |-> rest.err]

\* resolver.rs 131-167: resolve_host_v4 (t = A) and resolve_host_v6 (t = AAAA),
\* given what send_message ended with
resolve_host_vx(t, o) ==
    IF o.err # NoError THEN [addrs |-> <<>>, err |-> o.err]
    ELSE Collect(into_records(o.msg), t)

\* Option::or
or(a, b) == IF a # NoError THEN a ELSE b

\* a plausible slip: A results are pushed as they are
PushV4Unmapped(ip) == ip

\* resolver.rs 87: what is pushed for an A address when use_inet6 is set
PushV4Mapped(ip) == to_ipv6_mapped(ip)

Query(name, t, r) == [name |-> name, q_type |-> t, addrs |-> r.addrs, err |-> r.err]

\* no name is being looked up
NoHost ==
    /\ h_pc = "idle"
    /\ h_res = <<>>
    /\ h_err = NoError
    /\ h_log = <<>>

\* resolver.rs 259-260, 273 with 76-78: query_names calls the lookup with the
\* next name
StartLookup ==
    /\ qn_pc \in {"search", "direct"}
    /\ names # <<>>
    /\ h_pc = "idle"
    /\ queried' = Append(queried, Head(names))
    /\ names' = Tail(names)
    /\ h_res' = <<>>
    /\ h_err' = NoError
    /\ h_log' = <<>>
    /\ h_pc' = "first"
    /\ UNCHANGED <<host, qn_pc, qn_err, qn_result>>
    /\ UNCHANGED <<engineVars, nameVars, rdataVars, recordVars, writerVars, addrVars, msgVars>>

\* resolver.rs 81-83, 90: the first query for the name, AAAA if use_inet6 is
\* set, A otherwise
QueryFirst ==
    /\ h_pc = "first"
    /\ \E o \in HostOutcomes :
         LET name == queried[Len(queried)]
             t == IF config.use_inet6 THEN RecordTypeAAAA ELSE RecordTypeA
             r == resolve_host_vx(t, o)
         IN  /\ h_res' = h_res \o r.addrs
             /\ h_err' = r.err
             /\ h_log' = Append(h_log, Query(name, t, r))
    /\ h_pc' = "second"
    /\ UNCHANGED searchVars
    /\ UNCHANGED <<engineVars, nameVars, rdataVars, recordVars, writerVars, addrVars, msgVars>>

\* a plausible slip: the second query is left out whenever the first one
\* gave addresses
SkipSecondAlways == h_res # <<>>

\* resolver.rs 85: with use_inet6 the second query is left out if the first
\* one gave addresses
SkipSecond == config.use_inet6 /\ h_res # <<>>

\* resolver.rs 84-88, 91-92: the second query, A if use_inet6 is set, AAAA
\* otherwise
QuerySecond ==
    /\ h_pc = "second"
    /\ IF SkipSecond
       THEN UNCHANGED <<h_res, h_err, h_log>>
       ELSE \E o \in HostOutcomes :
              LET name == queried[Len(queried)]
                  t == IF config.use_inet6 THEN RecordTypeA ELSE RecordTypeAAAA
                  r == resolve_host_vx(t, o)
                  pushed == IF config.use_inet6
                            THEN [i \in 1..Len(r.addrs) |-> PushV4Mapped(r.addrs[i])]
                            ELSE r.addrs
              IN  /\ h_res' = h_res \o pushed
                  /\ h_err' = or(h_err, r.err)
                  /\ h_log' = Append(h_log, Query(name, t, r))
    /\ h_pc' = "end"
    /\ UNCHANGED searchVars
    /\ UNCHANGED <<engineVars, nameVars, rdataVars, recordVars, writerVars, addrVars, msgVars>>

HostOk(addrs) == [tag |-> "Ok", name |-> addrs, err |-> NoError]

\* a plausible slip: the collected addresses are returned, be there any or not
LookupResultAnyList == IF h_err # NoError THEN QnErr(h_err) ELSE HostOk(h_res)

\* resolver.rs 95-104: what the lookup of the name returns
LookupResult ==
    IF h_res # <<>> THEN HostOk(h_res)
    ELSE IF h_err # NoError THEN QnErr(h_err)
    ELSE QnErr(NotFound)

\* a plausible slip: query_names returns the first error (try! on the lookup)
EndLookupFirstError ==
    /\ h_pc = "end"
    /\ h_pc' = "idle"
    /\ qn_result' = LookupResult
    /\ qn_pc' = "done"
    /\ UNCHANGED <<host, names, queried, qn_err>>
    /\ UNCHANGED <<h_res, h_err, h_log>>
    /\ UNCHANGED <<engineVars, nameVars, rdataVars, recordVars, writerVars, addrVars, msgVars>>

\* resolver.rs 95-104 with 260-263, 273: the lookup returns and query_names
\* takes its result
EndLookup ==
    /\ h_pc = "end"
    /\ h_pc' = "idle"
    /\ IF qn_pc = "direct" \/ LookupResult.tag = "Ok"
       THEN /\ qn_result' = LookupResult
            /\ qn_pc' = "done"
            /\ UNCHANGED qn_err
       ELSE /\ qn_err' = LookupResult.err
            /\ UNCHANGED <<qn_pc, qn_result>>
    /\ UNCHANGED <<host, names, queried>>
    /\ UNCHANGED <<h_res, h_err, h_log>>
    /\ UNCHANGED <<engineVars, nameVars, rdataVars, recordVars, writerVars, addrVars, msgVars>>

NextHost ==
    \/ QueryNames
    \/ StartLookup
    \/ QueryFirst
    \/ QuerySecond
    \/ EndLookup
    \/ SearchFailed

\* ---------------------------------------- resolve_record and resolve_addr

\* longest section of the replies resolve_record and resolve_addr are given
MaxSectionLen == 1

\* record.rs 32: the code of Class::Internet
ClassInternet == 1

\* message.rs 836-842: Question::new
Question(name, t, c) == [name |-> name, q_type |-> t, q_class |-> c]

\* format!("{}", n) of an octet: its decimal digits
Decimal(n) == ToString(n)

\* format!("{:x}", n) of a nibble: one lowercase hexadecimal digit
LowerHex(n) ==
    <<"0", "1", "2", "3", "4", "5", "6", "7",
      "8", "9", "a", "b", "c", "d", "e", "f">>[n + 1]

\* the labels joined by dots, in the representation of names of query_names
JoinDots(labels) ==
    [i \in 1..(2 * Len(labels) - 1) |->
        IF i % 2 = 1 THEN labels[(i + 1) \div 2] ELSE Dot]

\* address.rs 38-70: the 32 nibbles of an IPv6 address, the lowest first
Nibbles(s) ==
    [k \in 1..32 |-> (s[8 - ((k - 1) \div 4)] \div (16 ^ ((k - 1) % 4))) % 16]

\* address.rs 26-75: address_name, the name a PTR query asks for
address_name(addr) ==
    IF addr.fam = "V4"
    THEN JoinDots(<<Decimal(addr.a[4]), Decimal(addr.a[3]),
                    Decimal(addr.a[2]), Decimal(addr.a[1]),
                    "in-addr", "arpa">>)
    ELSE JoinDots([k \in 1..32 |-> LowerHex(Nibbles(addr.a)[k])]
                  \o <<"ip6", "arpa">>)

\* message.rs 157-217 on a reader that holds the rdata of one record alone:
\* the name starts at offset 0, so that no pointer points before its start.
\* The result is the text read, the error, and the cursor after the name.
RECURSIVE read_name_from(_, _, _, _)
read_name_from(d, pos, total, text) ==
    IF pos >= Len(d) THEN [err |-> "ShortMessage", text |-> <<>>, at |-> pos]
    ELSE LET b == d[pos + 1]
         IN  IF b = 0
             THEN IF total + 1 > NAME_LIMIT
                  THEN [err |-> "InvalidName", text |-> <<>>, at |-> pos + 1]
                  ELSE [err |-> "None",
                        text |-> IF text = <<>> THEN <<46>> ELSE text,
                        at |-> pos + 1]
             ELSE IF TopBits(b) = 3
             THEN IF pos + 1 >= Len(d)
                  THEN [err |-> "ShortMessage", text |-> <<>>, at |-> pos + 1]
                  ELSE IF ~PointerAllowed((b % 64) * 256 + d[pos + 2], 0)
                  THEN [err |-> "InvalidName", text |-> <<>>, at |-> pos + 2]
                  ELSE read_name_from(d, (b % 64) * 256 + d[pos + 2], total, text)
             ELSE IF TopBits(b) # 0
             THEN [err |-> "InvalidMessage", text |-> <<>>, at |-> pos + 1]
             ELSE IF total + 1 + b > NAME_LIMIT
             THEN [err |-> "InvalidName", text |-> <<>>, at |-> pos + 1]
             ELSE IF pos + 1 + b > Len(d)
             THEN [err |-> "ShortMessage", text |-> <<>>, at |-> Len(d)]
             ELSE LET seg == SubSeq(d, pos + 2, pos + 1 + b)
                  IN  IF ~is_ascii(seg) \/ ~is_valid_segment(seg) \/ to_unicode(seg).err
                      THEN [err |-> "InvalidName", text |-> <<>>, at |-> pos + 1 + b]
                      ELSE read_name_from(d, pos + 1 + b, total + 1 + b,
                                          text \o to_unicode(seg).value \o <<46>>)

\* message.rs 874-879 with record.rs 167-170 (CName), 214-217 (Ns) and
\* 231-234 (Ptr): read_rdata of a record that holds a name
read_rdata_name(d) ==
    LET n == read_name_from(d, 0, 0, <<>>)
    IN  IF n.err # "None" THEN DecodeErr(n.err)
        ELSE IF finish(d, n.at) # "None" THEN DecodeErr(finish(d, n.at))
        ELSE Decoded(n.text)

\* message.rs 874-879: read_rdata::<Rec> for the record type Rec of code t
read_rdata(t, d) ==
    IF t = RecordTypeA THEN read_rdata_A(d)
    ELSE IF t = RecordTypeAAAA THEN read_rdata_AAAA(d)
    ELSE read_rdata_name(d)

P1 == Rr(RecordTypePtr, <<1, 97, 0>>)
P2 == Rr(RecordTypePtr, <<1, 98, 0>>)
PBad == Rr(RecordTypePtr, <<192, 0>>)
PRoot == Rr(RecordTypePtr, <<0>>)

\* the records of the replies: an address, an alias, pointers to "a." and
\* "b.", a pointer whose rdata is a compression pointer, a pointer to the root
RecordKinds == {A1, CN, P1, P2, PBad, PRoot}

RecordSections == ByteSeqs(RecordKinds, MaxSectionLen)

RecordReplies ==
    {Reply(an, au, ad) : an \in RecordSections, au \in RecordSections,
                         ad \in RecordSections}

RecordOutcomes ==
    {Sent(m) : m \in RecordReplies} \cup {SendFailed(e) : e \in LookupErrors}

\* the record types resolve_record is called for
RecTypes == {RecordTypeA, RecordTypeCName, RecordTypePtr}

RecordNames == {<<"foo">>, <<"foo", Dot, "bar", Dot>>}

PtrAddrs == {V4(<<1, 2, 3, 4>>), V6(<<8193, 3512, 0, 0, 0, 0, 0, 171>>)}

RrOk(v) == [tag |-> "Ok", value |-> v, err |-> NoError]
RrErr(e) == [tag |-> "Err", value |-> <<>>, err |-> e]
RrNone == [tag |-> "None", value |-> <<>>, err |-> NoError]

\* a plausible slip: the records that fail to decode are left out
RECURSIVE DecodeAllLenient(_, _)
DecodeAllLenient(records, t) ==
    IF records = <<>> THEN RrOk(<<>>)
    ELSE LET rr == Head(records)
             rest == DecodeAllLenient(Tail(records), t)
         IN  IF rr.r_type # t \/ read_rdata(t, rr.data).err # "None" THEN rest
             ELSE RrOk(<<read_rdata(t, rr.data).value>> \o rest.value)

\* resolver.rs 118-126: the records of type r_ty are decoded in order; the
\* first that fails to decode ends the call with its error
RECURSIVE DecodeAll(_, _)
DecodeAll(records, t) ==
    IF records = <<>> THEN RrOk(<<>>)
    ELSE LET rr == Head(records)
         IN  IF rr.r_type # t THEN DecodeAll(Tail(records), t)
             ELSE LET v == read_rdata(t, rr.data)
                  IN  IF v.err # "None" THEN RrErr(Error("DecodeError", v.err))
                      ELSE LET rest == DecodeAll(Tail(records), t)
                           IN  IF rest.tag = "Err" THEN rest
                               ELSE RrOk(<<v.value>> \o rest.value)

\* a plausible slip: the dot that ends the name is kept
KeepDot(name) == name

\* resolver.rs 58-61: one dot at the end of the name is removed
PopDot(name) ==
    IF name # <<>> /\ name[Len(name)] = 46
    THEN SubSeq(name, 1, Len(name) - 1) ELSE name

\* resolver.rs 55-67: the first record of type Ptr gives the result
RECURSIVE FirstPtr(_)
FirstPtr(records) ==
    IF records = <<>> THEN RrErr(NotFound)
    ELSE LET rr == Head(records)
         IN  IF rr.r_type # RecordTypePtr THEN FirstPtr(Tail(records))
             ELSE LET v == read_rdata(RecordTypePtr, rr.data)
                  IN  IF v.err # "None" THEN RrErr(Error("DecodeError", v.err))
                      ELSE RrOk(PopDot(v.value))

\* resolver.rs 110-115: resolve_record::<Rec>(name) builds its message
ResolveRecord ==
    /\ rr_pc = "idle"
    /\ \E t \in RecTypes, n \in RecordNames :
          /\ rr_arg' = n
          /\ question' = <<Question(n, t, ClassInternet)>>
    /\ rr_pc' = "record"
    /\ UNCHANGED <<reply, rr_result>>
    /\ UNCHANGED <<engineVars, nameVars, rdataVars, searchVars>>
    /\ UNCHANGED <<hostVars, writerVars, addrVars, msgVars>>

\* resolver.rs 47-52: resolve_addr(addr) builds its message
ResolveAddr ==
    /\ rr_pc = "idle"
    /\ \E addr \in PtrAddrs :
          /\ rr_arg' = addr
          /\ question' = <<Question(address_name(addr), RecordTypePtr, ClassInternet)>>
    /\ rr_pc' = "addr"
    /\ UNCHANGED <<reply, rr_result>>
    /\ UNCHANGED <<engineVars, nameVars, rdataVars, searchVars>>
    /\ UNCHANGED <<hostVars, writerVars, addrVars, msgVars>>

\* resolver.rs 117-128: send_message has returned to resolve_record
RecordReply ==
    /\ rr_pc = "record"
    /\ \E o \in RecordOutcomes :
          /\ reply' = o
          /\ rr_result' = IF o.err # NoError THEN RrErr(o.err)
                          ELSE DecodeAll(into_records(o.msg), question[1].q_type)
    /\ rr_pc' = "record_done"
    /\ UNCHANGED <<rr_arg, question>>
    /\ UNCHANGED <<engineVars, nameVars, rdataVars, searchVars>>
    /\ UNCHANGED <<hostVars, writerVars, addrVars, msgVars>>

\* resolver.rs 54-68: send_message has returned to resolve_addr
AddrReply ==
    /\ rr_pc = "addr"
    /\ \E o \in RecordOutcomes :
          /\ reply' = o
          /\ rr_result' = IF o.err # NoError THEN RrErr(o.err)
                          ELSE FirstPtr(into_records(o.msg))
    /\ rr_pc' = "addr_done"
    /\ UNCHANGED <<rr_arg, question>>
    /\ UNCHANGED <<engineVars, nameVars, rdataVars, searchVars>>
    /\ UNCHANGED <<hostVars, writerVars, addrVars, msgVars>>

NextRecord ==
    \/ ResolveRecord
    \/ ResolveAddr
    \/ RecordReply
    \/ AddrReply

\* ------------------------------------------------- MsgWriter: write_name

\* message.rs 19: maximum size of a DNS message, in bytes
MESSAGE_LIMIT == 512

\* message.rs 22: maximum length of a name segment
LABEL_LIMIT == 63

\* longest of the short names given to write_name
MaxNameLen == 4

\* most labels of the long names given to write_name
MaxLabels == 4

\* A name given to write_name is the sequence of its characters, '.' being
\* 46; an ASCII character is its byte.

\* message.rs 533-536: is_valid_name
is_valid_name(name) ==
    /\ Len(name) # 0
    /\ (Len(name) = 1 \/ name[1] # 46)
    /\ ~\E j \in 1..(Len(name) - 1) : name[j] = 46 /\ name[j + 1] = 46

\* str::split('.'): the segments between the dots, the empty ones included
RECURSIVE Split(_)
Split(name) ==
    IF \A j \in 1..Len(name) : name[j] # 46 THEN <<name>>
    ELSE LET p == CHOOSE j \in 1..Len(name) :
                     name[j] = 46 /\ \A h \in 1..(j - 1) : name[h] # 46
         IN  <<SubSeq(name, 1, p - 1)>> \o Split(SubSeq(name, p + 1, Len(name)))

Written(e, out) == [err |-> e, out |-> out]

\* a plausible slip: only the buffer bounds a write
WriteToCapacity(out, cap, bytes) ==
    IF Len(out) + Len(bytes) > cap
    THEN Written("TooLong", out \o SubSeq(bytes, 1, cap - Len(out)))
    ELSE Written("None", out \o bytes)

\* message.rs 379-387: write, on a writer that wrapped a buffer of cap bytes
\* and wrote the bytes out; write_all copies what fits before it fails
Write(out, cap, bytes) ==
    IF Len(out) + Len(bytes) > MESSAGE_LIMIT THEN Written("TooLong", out)
    ELSE IF Len(out) + Len(bytes) > cap
    THEN Written("TooLong", out \o SubSeq(bytes, 1, cap - Len(out)))
    ELSE Written("None", out \o bytes)

\* a plausible slip: the terminating zero of a name without a final dot is
\* not counted
TerminatorFitsAlways(total) == TRUE

\* message.rs 423: the terminating zero fits in the name
TerminatorFits(total) == ~(total + 1 > NAME_LIMIT)

\* a plausible slip: the octet of the length counts itself
LengthOctetCountsItself(seg) == Len(seg) + 1

\* message.rs 418: seg.len() as u8, the octet written before a label
LengthOctet(seg) == Len(seg)

\* message.rs 398-420: the loop over the segments of the name; the bytes of
\* the segments written before one fails stay written
RECURSIVE WriteSegments(_, _, _, _)
WriteSegments(out, cap, segs, total) ==
    IF segs = <<>> THEN [err |-> "None", out |-> out, total |-> total]
    ELSE LET seg == to_ascii(Head(segs))
         IN  IF seg.err \/ ~is_valid_segment(seg.value)
                \/ Len(seg.value) > LABEL_LIMIT
                \/ total + 1 + Len(seg.value) > NAME_LIMIT
             THEN [err |-> "InvalidName", out |-> out, total |-> total]
             ELSE LET w1 == Write(out, cap, <<LengthOctet(seg.value)>>)
                      w2 == Write(w1.out, cap, seg.value)
                  IN  IF w1.err # "None"
                      THEN [err |-> w1.err, out |-> w1.out, total |-> total]
                      ELSE IF w2.err # "None"
                      THEN [err |-> w2.err, out |-> w2.out, total |-> total]
                      ELSE WriteSegments(w2.out, cap, Tail(segs),
                                         total + 1 + Len(seg.value))

\* message.rs 390-432: write_name
write_name(out, cap, name) ==
    IF ~is_valid_name(name) THEN Written("InvalidName", out)
    ELSE IF name = <<46>> THEN Write(out, cap, <<0>>)
    ELSE LET w == WriteSegments(out, cap, Split(name), 0)
         IN  IF w.err # "None" THEN Written(w.err, w.out)
             ELSE IF name[Len(name)] = 46 THEN Written("None", w.out)
             ELSE IF ~TerminatorFits(w.total) THEN Written("InvalidName", w.out)
             ELSE Write(w.out, cap, <<0>>)

\* '-', '.', 'a' and u-umlaut
NameChars == {45, 46, 97, 252}

ShortNames == ByteSeqs(NameChars, MaxNameLen)

\* names with labels that begin with "xn--": "xn--a", "xn--tda", "XN--tda",
\* "a.xn---a" and "xn--a-"
AceNames ==
    {<<120, 110, 45, 45, 97>>, <<120, 110, 45, 45, 116, 100, 97>>,
     <<88, 78, 45, 45, 116, 100, 97>>, <<97, 46, 120, 110, 45, 45, 45, 97>>,
     <<120, 110, 45, 45, 97, 45>>}

\* the lengths of the labels of the long names
LabelLens == {1, 61, 62, 63, 64}

\* a label of n letters 'a'
Label(n) == [j \in 1..n |-> 97]

\* the labels joined by dots
RECURSIVE JoinLabels(_)
JoinLabels(labels) ==
    IF Len(labels) = 1 THEN Head(labels)
    ELSE Head(labels) \o <<46>> \o JoinLabels(Tail(labels))

LongNames ==
    LET S == {JoinLabels([j \in DOMAIN ls |-> Label(ls[j])]) :
                 ls \in UNION {[1..n -> LabelLens] : n \in 1..MaxLabels}}
    IN  S \cup {s \o <<46>> : s \in S}

WriterNames == ShortNames \cup AceNames \cup LongNames

\* the wire form of labels of the given lengths, not terminated
RECURSIVE WireLabels(_)
WireLabels(ls) ==
    IF ls = <<>> THEN <<>>
    ELSE <<Head(ls)>> \o Label(Head(ls)) \o WireLabels(Tail(ls))

\* Names reached through one, two and three pointers, with and without
\* labels before the first pointer and bytes after it, and a name without a
\* pointer followed by other bytes.
ChainNames ==
    {[bytes |-> <<0, 192, 0, 192, 1>>, at |-> 3],
     [bytes |-> <<0, 192, 0, 192, 1, 192, 3, 9>>, at |-> 5],
     [bytes |-> <<1, 97, 0, 192, 0, 1, 97, 192, 3, 9, 9>>, at |-> 5],
     [bytes |-> <<1, 97, 0, 192, 0, 9>>, at |-> 3],
     [bytes |-> <<1, 97, 0, 1, 97, 0, 9>>, at |-> 3],
     [bytes |-> <<1, 97, 192, 0, 9>>, at |-> 0]}

\* A name of three labels of 63 bytes at offset 0, and after it a name made
\* of one label and a pointer to offset 0: the second name is read.
WireNames ==
    {[bytes |-> WireLabels(<<63, 63, 63>>) \o <<0>> \o WireLabels(<<k>>) \o <<192, 0>>,
      at |-> 193] : k \in 59..63}
    \cup {[bytes |-> WireLabels(<<63, 63, 63, k>>) \o <<0>>, at |-> 0] : k \in 60..63}
    \cup ChainNames


\* message.rs 361-363: MsgWriter::new over a buffer of MESSAGE_LIMIT bytes,
\* then write_name(w_name)
WriteName ==
    /\ w_pc = "idle"
    /\ LET w == write_name(<<>>, MESSAGE_LIMIT, w_name)
       IN  /\ w_data' = w.out
           /\ w_result' = w.err
    /\ w_pc' = "written"
    /\ UNCHANGED w_name
    /\ UNCHANGED <<engineVars, nameVars, rdataVars, searchVars>>
    /\ UNCHANGED <<hostVars, recordVars, addrVars, msgVars>>

\* message.rs 372-375, 86-88: into_bytes, then MsgReader::new over the bytes
\* written
ReadBack ==
    /\ w_pc = "written"
    /\ w_result = "None"
    /\ data' = w_data
    /\ position' = 0
    /\ name_pc' = "idle"
    /\ w_pc' = "reading"
    /\ UNCHANGED <<start_pos, restore, res, total_read, len, ptr_offset, name_result>>
    /\ UNCHANGED <<w_name, w_data, w_result>>
    /\ UNCHANGED <<engineVars, rdataVars, searchVars>>
    /\ UNCHANGED <<hostVars, recordVars, addrVars, msgVars>>

\* message.rs 86-88: MsgReader::new over a message that holds long names,
\* its cursor moved to the name to read
ReadWire ==
    /\ w_pc = "wire"
    /\ name_pc = "none"
    /\ \E m \in WireNames :
          /\ data' = m.bytes
          /\ position' = m.at
    /\ name_pc' = "idle"
    /\ UNCHANGED <<start_pos, restore, res, total_read, len, ptr_offset, name_result>>
    /\ UNCHANGED writerVars
    /\ UNCHANGED <<engineVars, rdataVars, searchVars>>
    /\ UNCHANGED <<hostVars, recordVars, addrVars, msgVars>>

NextCodec ==
    \/ WriteName
    \/ ReadBack
    \/ ReadWire
    \/ NextName

\* neither resolve_record nor resolve_addr is running
NoCall ==
    /\ rr_pc = "none"
    /\ rr_arg = <<>>
    /\ question = <<>>
    /\ reply = Sent(NoReply)
    /\ rr_result = RrNone

\* ------------------------------------------- Message: encode and decode

\* message.rs 903-914: OpCode; message.rs 942-958: RCode
Named(tag) == [tag |-> tag, n |-> 0]
Other(n) == [tag |-> "Other", n |-> n]

\* message.rs 918-926: OpCode::from_u8
OpCode_from_u8(u) ==
    CASE u = 0 -> Named("Query")
      [] u = 2 -> Named("Status")
      [] u = 4 -> Named("Notify")
      [] u = 5 -> Named("Update")
      [] OTHER -> Other(u)

\* message.rs 929-937: OpCode::to_u8
OpCode_to_u8(op) ==
    CASE op.tag = "Query" -> 0
      [] op.tag = "Status" -> 2
      [] op.tag = "Notify" -> 4
      [] op.tag = "Update" -> 5
      [] OTHER -> op.n

\* message.rs 976-986: RCode::from_u8
RCode_from_u8(u) ==
    CASE u = 0 -> Named("NoError")
      [] u = 1 -> Named("FormatError")
      [] u = 2 -> Named("ServerFailure")
      [] u = 3 -> Named("NameError")
      [] u = 4 -> Named("NotImplemented")
      [] u = 5 -> Named("Refused")
      [] OTHER -> Other(u)

\* message.rs 989-999: RCode::to_u8
RCode_to_u8(rc) ==
    CASE rc.tag = "NoError" -> 0
      [] rc.tag = "FormatError" -> 1
      [] rc.tag = "ServerFailure" -> 2
      [] rc.tag = "NameError" -> 3
      [] rc.tag = "NotImplemented" -> 4
      [] rc.tag = "Refused" -> 5
      [] OTHER -> rc.n

\* message.rs 717-737: Header
Header(id, qr, op, aa, tc, rd, ra, rcode) ==
    [id |-> id, qr |-> qr, op |-> op, authoritative |-> aa, truncated |-> tc,
     recursion_desired |-> rd, recursion_available |-> ra, rcode |-> rcode]

\* message.rs 847-858: Resource
Resource(name, t, c, ttl, rdata) ==
    [name |-> name, r_type |-> t, r_class |-> c, ttl |-> ttl, data |-> rdata]

\* message.rs 549-561: Message
Message(h, qd, an, ns, ar) ==
    [header |-> h, question |-> qd, answer |-> an, authority |-> ns, additional |-> ar]

\* bool as u8, and Qr as u8 (Query = 0, Response = 1)
Bit(b) == IF b THEN 1 ELSE 0

\* u16::to_be and u32::to_be followed by transmute: the bytes in memory
U16Be(n) == <<n \div 256, n % 256>>
U32Be(n) == <<n \div 16777216, (n \div 65536) % 256, (n \div 256) % 256, n % 256>>

\* transmute of a u16 that was not converted: the bytes in memory are in the
\* order of the target the program was built for
U16Native(n, little) == IF little THEN <<n % 256, n \div 256>> ELSE U16Be(n)

\* message.rs 1032-1038: to_u16
to_u16_fails(n) == n > 65535

\* message.rs 269-270: the opcode is flags0 & 0b01111000, not shifted
OpBits(flags0) == (flags0 % 128) - (flags0 % 8)

\* message.rs 451-483: the twelve bytes write_header hands to write; the
\* section counts are those of the message (message.rs 630-633)
HeaderBytes(h, qd, an, ns, ar) ==
    U16Be(h.id)
    \o <<Bit(h.qr = "Response") * 128 + (OpCode_to_u8(h.op) % 16) * 8
          + Bit(h.authoritative) * 4 + Bit(h.truncated) * 2 + Bit(h.recursion_desired),
         Bit(h.recursion_available) * 128 + (RCode_to_u8(h.rcode) % 16)>>
    \o U16Be(qd) \o U16Be(an) \o U16Be(ns) \o U16Be(ar)

\* try!: the write that follows w is made if w succeeded
ThenWrite(w, cap, bytes) == IF w.err # "None" THEN w ELSE Write(w.out, cap, bytes)

\* message.rs 508: try!(to_u16(n)) after w
ThenToU16(w, n) ==
    IF w.err # "None" THEN w
    ELSE IF to_u16_fails(n) THEN Written("TooLong", w.out)
    ELSE w

\* message.rs 486-497: write_question
write_question(out, cap, q) ==
    ThenWrite(write_name(out, cap, q.name), cap, U16Be(q.q_type) \o U16Be(q.q_class))

\* message.rs 500-515: write_resource; the length is stored as it is
\* (message.rs 508 has no to_be)
write_resource(out, cap, r, little) ==
    ThenWrite(ThenWrite(ThenToU16(write_name(out, cap, r.name), Len(r.data)),
                        cap,
                        U16Be(r.r_type) \o U16Be(r.r_class) \o U32Be(r.ttl)
                            \o U16Native(Len(r.data), little)),
              cap, r.data)

\* message.rs 637-639: the loop over the questions
RECURSIVE WriteQuestions(_, _, _)
WriteQuestions(w, cap, qs) ==
    IF w.err # "None" \/ qs = <<>> THEN w
    ELSE WriteQuestions(write_question(w.out, cap, Head(qs)), cap, Tail(qs))

\* message.rs 640-648: the loop over the records of a section
RECURSIVE WriteResources(_, _, _, _)
WriteResources(w, cap, rs, little) ==
    IF w.err # "None" \/ rs = <<>> THEN w
    ELSE WriteResources(write_resource(w.out, cap, Head(rs), little), cap, Tail(rs), little)

\* message.rs 616-651: Message::encode into a buffer of cap bytes
encode_message(m, cap, little) ==
    IF \/ to_u16_fails(Len(m.question)) \/ to_u16_fails(Len(m.answer))
       \/ to_u16_fails(Len(m.authority)) \/ to_u16_fails(Len(m.additional))
    THEN Written("TooLong", <<>>)
    ELSE WriteResources(
           WriteResources(
             WriteResources(
               WriteQuestions(
                 Write(<<>>, cap, HeaderBytes(m.header, Len(m.question), Len(m.answer),
                                              Len(m.authority), Len(m.additional))),
                 cap, m.question),
               cap, m.answer, little),
             cap, m.authority, little),
           cap, m.additional, little)

\* what a read function returns: the error, the value, the cursor after it
ReadOk(v, at) == [err |-> "None", value |-> v, at |-> at]
ReadErr(e, at) == [err |-> e, value |-> <<>>, at |-> at]

\* message.rs 258-304: read_header; the value is the FullHeader
read_header(d) ==
    IF Len(d) < 12 THEN ReadErr("ShortMessage", Len(d))
    ELSE ReadOk([header |-> Header(read_u16(d[1], d[2]),
                                   IF d[3] \div 128 = 0 THEN "Query" ELSE "Response",
                                   OpCode_from_u8(OpBits(d[3])),
                                   (d[3] \div 4) % 2 # 0,
                                   (d[3] \div 2) % 2 # 0,
                                   d[3] % 2 # 0,
                                   d[4] \div 128 # 0,
                                   RCode_from_u8(d[4] % 16)),
                 qd_count |-> read_u16(d[5], d[6]),
                 an_count |-> read_u16(d[7], d[8]),
                 ns_count |-> read_u16(d[9], d[10]),
                 ar_count |-> read_u16(d[11], d[12])], 12)

\* message.rs 307-324: read_question at offset pos (the names of an encoded
\* message hold no pointer)
read_question(d, pos) ==
    LET AfterName(n) ==
            IF n.err # "None" THEN ReadErr(n.err, n.at)
            ELSE IF n.at + 4 > Len(d) THEN ReadErr("ShortMessage", Len(d))
            ELSE ReadOk(Question(n.text, read_u16(d[n.at + 1], d[n.at + 2]),
                                 read_u16(d[n.at + 3], d[n.at + 4])), n.at + 4)
    IN  AfterName(read_name_from(d, pos, 0, <<>>))

\* message.rs 327-351: read_resource at offset pos; the length is taken as
\* big-endian
read_resource(d, pos) ==
    LET AfterName(n) ==
            IF n.err # "None" THEN ReadErr(n.err, n.at)
            ELSE IF n.at + 10 > Len(d) THEN ReadErr("ShortMessage", Len(d))
            ELSE LET length == read_u16(d[n.at + 9], d[n.at + 10])
                     ttl == read_u16(d[n.at + 5], d[n.at + 6]) * 65536
                            + read_u16(d[n.at + 7], d[n.at + 8])
                 IN  IF n.at + 10 + length > Len(d) THEN ReadErr("ShortMessage", Len(d))
                     ELSE ReadOk(Resource(n.text, read_u16(d[n.at + 1], d[n.at + 2]),
                                          read_u16(d[n.at + 3], d[n.at + 4]), ttl,
                                          SubSeq(d, n.at + 11, n.at + 10 + length)),
                                 n.at + 10 + length)
    IN  AfterName(read_name_from(d, pos, 0, <<>>))

\* message.rs 593-595: the loop that reads count questions from offset pos
RECURSIVE ReadQuestions(_, _, _, _)
ReadQuestions(d, pos, count, acc) ==
    LET Push(q) == IF q.err # "None" THEN q
                   ELSE ReadQuestions(d, q.at, count - 1, Append(acc, q.value))
    IN  IF count = 0 THEN ReadOk(acc, pos)
        ELSE Push(read_question(d, pos))

\* message.rs 597-607: the loop that reads count records from offset pos
RECURSIVE ReadResources(_, _, _, _)
ReadResources(d, pos, count, acc) ==
    LET Push(r) == IF r.err # "None" THEN r
                   ELSE ReadResources(d, r.at, count - 1, Append(acc, r.value))
    IN  IF count = 0 THEN ReadOk(acc, pos)
        ELSE Push(read_resource(d, pos))

DecodeOk(m) == [err |-> "None", msg |-> m]
DecodeFails(e) == [err |-> e, msg |-> <<>>]

\* message.rs 580-612: Message::decode; each section is read once the one
\* before it was read without error
decode_message(d) ==
    LET Finish(h, q, a, n, r) ==
            IF r.err # "None" THEN DecodeFails(r.err)
            ELSE IF finish(d, r.at) # "None" THEN DecodeFails(finish(d, r.at))
            ELSE DecodeOk(Message(h.value.header, q.value, a.value, n.value, r.value))
        Additional(h, q, a, n) ==
            IF n.err # "None" THEN DecodeFails(n.err)
            ELSE Finish(h, q, a, n, ReadResources(d, n.at, h.value.ar_count, <<>>))
        Authority(h, q, a) ==
            IF a.err # "None" THEN DecodeFails(a.err)
            ELSE Additional(h, q, a, ReadResources(d, a.at, h.value.ns_count, <<>>))
        Answers(h, q) ==
            IF q.err # "None" THEN DecodeFails(q.err)
            ELSE Authority(h, q, ReadResources(d, q.at, h.value.an_count, <<>>))
        Questions(h) ==
            IF h.err # "None" THEN DecodeFails(h.err)
            ELSE Answers(h, ReadQuestions(d, h.at, h.value.qd_count, <<>>))
    IN  Questions(read_header(d))

\* the opcodes and response codes: named ones, and Other of a four-bit value
\* that has no name
OpCodes == {Named("Query"), Named("Status"), Named("Notify"), Named("Update"),
            Other(1), Other(15)}
RCodeValues == {Named("NoError"), Named("NameError"), Named("Refused"), Other(6), Other(15)}

\* the id of test_message and one with a zero byte
HeaderIds == {43981, 255}

Headers ==
    {Header(id, qr, op, aa, tc, rd, ra, rcode) :
        id \in HeaderIds, qr \in {"Query", "Response"}, op \in OpCodes,
        aa \in BOOLEAN, tc \in BOOLEAN, rd \in BOOLEAN, ra \in BOOLEAN,
        rcode \in RCodeValues}

\* the header of test_message
TestHeader == Header(43981, "Query", Named("Query"), FALSE, FALSE, TRUE, TRUE,
                     Named("NoError"))

\* "foo.bar.com." as in test_message
FooBarCom == <<102, 111, 111, 46, 98, 97, 114, 46, 99, 111, 109, 46>>

\* n bytes of rdata
Zeros(n) == [i \in 1..n |-> 0]

\* rdata lengths: none, an address, one whose two length bytes are the same,
\* and those that bring a message of one record of the root to 511, 512 and
\* 513 bytes
DataLens == {0, 4, 257, 488, 489, 490}

\* the questions and the answers of a message
QuestionLists == {<<>>, <<Question(FooBarCom, RecordTypeA, ClassInternet)>>}
AnswerLists ==
    {<<>>}
    \cup {<<Resource(<<46>>, RecordTypeA, ClassInternet, 66051, Zeros(n))>> : n \in DataLens}
    \cup {<<Resource(<<97, 46>>, RecordTypeCName, ClassInternet, 0, <<1, 98, 0>>),
            Resource(<<46>>, RecordTypeA, ClassInternet, 1, <<1, 2, 3, 4>>)>>}

\* buffers: shorter than a header, that of test_message, the message limit,
\* and a longer one
Capacities == {8, 64, MESSAGE_LIMIT, 600}

\* every header with and without the question, in a buffer of the message
\* limit; and the header of test_message and one with another opcode with
\* every choice of sections, in every buffer
Messages ==
    {[msg |-> Message(h, qd, <<>>, <<>>, <<>>), cap |-> MESSAGE_LIMIT] :
        h \in Headers, qd \in QuestionLists}
    \cup {[msg |-> Message(h, qd, an, <<>>, ad), cap |-> cap] :
            h \in {TestHeader, [TestHeader EXCEPT !.op = Named("Status")]},
            qd \in QuestionLists, an \in AnswerLists,
            ad \in {<<>>, <<Resource(<<46>>, RecordTypeA, ClassInternet, 0, <<>>)>>},
            cap \in Capacities}

\* message.rs 616-651: m_msg is encoded into a buffer of m_cap bytes
Encode ==
    /\ m_pc = "idle"
    /\ \E w \in {encode_message(m_msg, m_cap, m_little)} :
         /\ m_bytes' = w.out
         /\ m_err' = w.err
    /\ m_pc' = "encoded"
    /\ UNCHANGED <<m_msg, m_cap, m_little, m_out>>
    /\ UNCHANGED <<engineVars, nameVars, rdataVars, searchVars>>
    /\ UNCHANGED <<hostVars, recordVars, writerVars, addrVars>>

\* message.rs 580-612: the bytes encode returned are decoded
Decode ==
    /\ m_pc = "encoded"
    /\ m_err = "None"
    /\ m_out' = decode_message(m_bytes)
    /\ m_pc' = "decoded"
    /\ UNCHANGED <<m_msg, m_cap, m_little, m_bytes, m_err>>
    /\ UNCHANGED <<engineVars, nameVars, rdataVars, searchVars>>
    /\ UNCHANGED <<hostVars, recordVars, writerVars, addrVars>>

NextMessage ==
    \/ Encode
    \/ Decode

\* --------------------------- send_message with Message::decode step by step

\* a Response header with the given id, opcode and response code, for one
\* question
ReplyHeader(id, op, rcode) ==
    HeaderBytes(Header(id, "Response", op, FALSE, FALSE, TRUE, TRUE, rcode), 1, 0, 0, 0)

\* the question names of the datagrams: the root, "a.", a pointer to the
\* name itself, and a pointer to the flags of the header (offset 2)
ReplyNames == {<<0>>, <<1, 97, 0>>, <<192, 12>>, <<192, 2>>}

\* The datagrams that may arrive while the query `id` waits: responses with
\* one question, with the id of the query or of the one before, without and
\* with an error code; the same with the opcode 8 and the response code
\* ServerFailure without the recursion flags, whose flag bytes are C0 02;
\* and the first three bytes of a response.
ReplyBytes(id) ==
    {ReplyHeader(i, Named("Query"), rc) \o name \o <<0, 1, 0, 1>> :
        i \in IdsNear(id), rc \in {Named("NoError"), Named("NameError")},
        name \in ReplyNames}
    \cup {HeaderBytes(Header(id, "Response", Other(8), FALSE, FALSE, FALSE, FALSE,
                             Named("ServerFailure")), 1, 0, 0, 0)
            \o name \o <<0, 1, 0, 1>> : name \in {<<0>>, <<192, 2>>}}
    \cup {SubSeq(ReplyHeader(id, Named("Query"), Named("NoError")), 1, 3)}

\* the reader is dropped
DropReader ==
    /\ data' = <<>>
    /\ position' = 0
    /\ name_pc' = "none"
    /\ start_pos' = 0
    /\ restore' = -1
    /\ res' = <<>>
    /\ total_read' = 0
    /\ len' = 0
    /\ ptr_offset' = -1
    /\ name_result' = NoName

\* resolver.rs 195-197 with socket.rs 50-57: recv_message gets a datagram; one
\* from another endpoint is Ok(None), one from the selected server is handed
\* to Message::decode (MsgReader::new)
RecvBytes ==
    /\ pc = "recv"
    /\ timeout > 0
    /\ name_pc = "none"
    /\ \E src \in {ns_addr, OtherPort}, bytes \in ReplyBytes(out_msg.id) :
         /\ rx' = [src |-> src, valid |-> FALSE, msg |-> NoMsg]
         /\ rx_count' = rx_count + 1
         /\ io' = Io("recv", "datagram")
         /\ IF ~addresses_match(src, ns_addr)
            THEN \E passed \in 1..(timeout + 1) :
                    /\ strays' = strays + 1
                    /\ elapsed' = elapsed + passed
                    /\ timeout' = Remaining(timeout, passed)
                    /\ UNCHANGED <<pc, nameVars>>
            ELSE /\ pc' = "decode"
                 /\ data' = bytes
                 /\ position' = 0
                 /\ name_pc' = "header"
                 /\ UNCHANGED <<strays, elapsed, timeout>>
                 /\ UNCHANGED <<start_pos, restore, res, total_read, len, ptr_offset,
                                name_result>>
    /\ UNCHANGED <<config, next_ns, out_msg, retries, ns_addr, last_err, result,
                   calls, sends, timeouts, sent_to, ID>>
    /\ UNCHANGED <<rdataVars, searchVars>>
    /\ UNCHANGED <<hostVars, recordVars, writerVars, addrVars, msgVars>>

\* message.rs 583-595: decode reads the header and comes to the question (the
\* datagrams of the model announce one question and no record)
DecodeHeader ==
    /\ pc = "decode"
    /\ name_pc = "header"
    /\ IF read_header(data).err # "None"
       THEN /\ name_result' = NameErr(read_header(data).err)
            /\ name_pc' = "done"
            /\ UNCHANGED position
       ELSE /\ position' = read_header(data).at
            /\ name_pc' = "idle"
            /\ UNCHANGED name_result
    /\ UNCHANGED <<data, start_pos, restore, res, total_read, len, ptr_offset>>
    /\ UNCHANGED <<engineVars, rdataVars, searchVars>>
    /\ UNCHANGED <<hostVars, recordVars, writerVars, addrVars, msgVars>>

\* message.rs 311-315, 609-611: after the name, the type and class of the
\* question are read and finish is called
DecodeOutcome ==
    IF name_result.tag = "Err" THEN name_result.err
    ELSE IF position + 4 > Len(data) THEN "ShortMessage"
    ELSE finish(data, position + 4)

\* socket.rs 56 with resolver.rs 197-226: Message::decode has returned, and
\* recv_message with it, `passed` after it was called
DecodeReturns ==
    /\ pc = "decode"
    /\ name_pc = "done"
    /\ LET h == read_header(data).value.header
           msg == Msg(h.id, h.qr, h.rcode.tag)
       IN  IF DecodeOutcome # "None"
           THEN /\ rx' = [rx EXCEPT !.valid = FALSE]
                /\ result' = Err(DecodeFailed)
                /\ pc' = "done"
                /\ UNCHANGED <<timeout, elapsed>>
           ELSE /\ rx' = [rx EXCEPT !.valid = TRUE, !.msg = msg]
                /\ IF Relevant(msg)
                   THEN /\ result' = IF get_error(msg) = NoError THEN Ok(msg)
                                     ELSE Err(get_error(msg))
                        /\ pc' = "done"
                        /\ UNCHANGED <<timeout, elapsed>>
                   ELSE \E passed \in 1..(timeout + 1) :
                           /\ timeout' = Remaining(timeout, passed)
                           /\ elapsed' = elapsed + passed
                           /\ pc' = "recv"
                           /\ UNCHANGED result
    /\ DropReader
    /\ UNCHANGED <<config, next_ns, out_msg, retries, ns_addr, last_err,
                   calls, sends, timeouts, sent_to, rx_count, strays, io, ID>>
    /\ UNCHANGED <<rdataVars, searchVars>>
    /\ UNCHANGED <<hostVars, recordVars, writerVars, addrVars, msgVars>>

NextReceive ==
    \/ Call
    \/ Attempt
    \/ Exhausted
    \/ SetReadTimeoutZero
    \/ RecvError
    \/ RecvBytes
    \/ DecodeHeader
    \/ NextName
    \/ DecodeReturns

\* ------------------------------------------- address and endpoint equality

\* std: Ipv4Addr::to_ipv6_compatible, a.b.c.d becomes ::a.b.c.d
to_ipv6_compatible(ip) ==
    V6(<<0, 0, 0, 0, 0, 0, ip.a[1] * 256 + ip.a[2], ip.a[3] * 256 + ip.a[4]>>)

\* std: SocketAddrV6::new(ip, port, flowinfo, scope_id); the derived equality
\* of SocketAddrV6 compares the four of them
SockAddrV6(ip, port, flowinfo, scope_id) ==
    [ip |-> ip, port |-> port, flowinfo |-> flowinfo, scope_id |-> scope_id]

\* 1.2.3.4 as in test_address_equal, a neighbour of it, and 0.0.0.1
CompareV4 == {V4(<<1, 2, 3, 4>>), V4(<<1, 2, 3, 5>>), V4(<<0, 0, 0, 1>>)}

\* the mapped and compatible forms of these, 1::102:304 of test_address_equal,
\* and addresses that differ from a mapped form in one group
CompareV6 ==
    {to_ipv6_mapped(ip) : ip \in CompareV4}
    \cup {to_ipv6_compatible(ip) : ip \in CompareV4}
    \cup {V6(<<1, 0, 0, 0, 0, 0, 258, 772>>),
          V6(<<0, 0, 0, 0, 0, 65534, 258, 772>>),
          V6(<<0, 0, 0, 0, 1, 65535, 258, 772>>)}

\* endpoints on the DNS port and on the next one; a V6 endpoint with and
\* without a scope id
Endpoints ==
    {SockAddr(ip, port) : ip \in CompareV4, port \in {DNS_PORT, DNS_PORT + 1}}
    \cup {SockAddrV6(ip, port, 0, scope_id) :
            ip \in CompareV6, port \in {DNS_PORT, DNS_PORT + 1}, scope_id \in {0, 1}}

\* address.rs 6-18: address_equal on the addresses of the two endpoints, in
\* both orders
AddressEqual ==
    /\ a_pc = "idle"
    /\ a_pc' = "address_equal"
    /\ a_fwd' = address_equal(a_left.ip, a_right.ip)
    /\ a_rev' = address_equal(a_right.ip, a_left.ip)
    /\ UNCHANGED <<a_left, a_right>>
    /\ UNCHANGED <<engineVars, nameVars, rdataVars, searchVars>>
    /\ UNCHANGED <<hostVars, recordVars, writerVars, msgVars>>

\* address.rs 21-23: socket_address_equal on the two endpoints, in both orders
SocketAddressEqual ==
    /\ a_pc = "idle"
    /\ a_pc' = "socket_address_equal"
    /\ a_fwd' = socket_address_equal(a_left, a_right)
    /\ a_rev' = socket_address_equal(a_right, a_left)
    /\ UNCHANGED <<a_left, a_right>>
    /\ UNCHANGED <<engineVars, nameVars, rdataVars, searchVars>>
    /\ UNCHANGED <<hostVars, recordVars, writerVars, msgVars>>

\* socket.rs 105-119: addresses_match on the two endpoints, in both orders
AddressesMatch ==
    /\ a_pc = "idle"
    /\ a_pc' = "addresses_match"
    /\ a_fwd' = addresses_match(a_left, a_right)
    /\ a_rev' = addresses_match(a_right, a_left)
    /\ UNCHANGED <<a_left, a_right>>
    /\ UNCHANGED <<engineVars, nameVars, rdataVars, searchVars>>
    /\ UNCHANGED <<hostVars, recordVars, writerVars, msgVars>>

NextCompare ==
    \/ AddressEqual
    \/ SocketAddressEqual
    \/ AddressesMatch

\* no addresses are compared
NoCompare ==
    /\ a_pc = "none"
    /\ a_left = ServerA
    /\ a_right = ServerA
    /\ a_fwd = FALSE
    /\ a_rev = FALSE

\* no message is encoded
NoMessage ==
    /\ m_pc = "none"
    /\ m_msg = <<>>
    /\ m_cap = 0
    /\ m_little = FALSE
    /\ m_bytes = <<>>
    /\ m_err = "None"
    /\ m_out = <<>>

\* no writer is in use
NoWriter ==
    /\ w_pc = "none"
    /\ w_name = <<>>
    /\ w_data = <<>>
    /\ w_result = "None"

\* --------------------------------------------------------- specifications

\* no reader is in use
NoReader ==
    /\ data = <<>>
    /\ position = 0
    /\ name_pc = "none"
    /\ start_pos = 0
    /\ restore = -1
    /\ res = <<>>
    /\ total_read = 0
    /\ len = 0
    /\ ptr_offset = -1
    /\ name_result = NoName

\* the query engine: send_message on a resolver of any configuration
Init ==
    /\ InitEngine
    /\ NoReader
    /\ NoRecord
    /\ NoQuery
    /\ NoHost
    /\ NoCall
    /\ NoWriter
    /\ NoCompare
    /\ NoMessage
Next == NextEngine
Spec == Init /\ [][Next]_vars

\* read_name on a reader over any bytes, at any position
InitName ==
    /\ IdleEngine
    /\ NoRecord
    /\ NoQuery
    /\ NoHost
    /\ NoCall
    /\ NoWriter
    /\ NoCompare
    /\ NoMessage
    /\ \E bytes \in ByteSeqs(NameBytes, MaxMsgLen) :
         \E at \in 0..Len(bytes) : NewReader(bytes, at)
SpecName == InitName /\ [][NextName]_vars

\* read_name runs on: a call that has not returned takes its next step
FairSpecName == SpecName /\ WF_vars(NextName)

\* read_resource on a message that holds a record of one name, then
\* read_rdata on the Resource it returned
InitRdata ==
    /\ IdleEngine
    /\ NoQuery
    /\ NoHost
    /\ NoCall
    /\ NoWriter
    /\ NoCompare
    /\ NoMessage
    /\ \E prefix \in Prefixes, owner \in OwnerNames, rtype \in NameRecordTypes,
          rdata \in ByteSeqs(RdataBytes, MaxRdataLen) :
         \E length \in {Len(rdata), Len(rdata) + 1} :
            /\ message = prefix \o RecordBytes(owner, rtype, length, rdata)
            /\ NewReader(message, Len(prefix))
    /\ resource = NoResource
    /\ rd_offset = -1
    /\ rd_pc = "resource"
    /\ rd_result = NoName
SpecRdata == InitRdata /\ [][NextRdata]_vars

\* query_names for any host, search list and n_dots
InitSearch ==
    /\ config \in SearchConfigs
    /\ EngineAtRest
    /\ NoReader
    /\ NoRecord
    /\ NoHost
    /\ NoCall
    /\ NoWriter
    /\ NoCompare
    /\ NoMessage
    /\ host \in Hosts
    /\ names = <<>>
    /\ qn_pc = "idle"
    /\ qn_err = NoError
    /\ queried = <<>>
    /\ qn_result = QnNone
SpecSearch == InitSearch /\ [][NextSearch]_vars

\* resolve_host for a name, with or without a search list, A first or AAAA
\* first
InitHost ==
    /\ config \in HostConfigs
    /\ EngineAtRest
    /\ NoReader
    /\ NoRecord
    /\ NoHost
    /\ NoCall
    /\ NoWriter
    /\ NoCompare
    /\ NoMessage
    /\ host \in HostNames
    /\ names = <<>>
    /\ qn_pc = "idle"
    /\ qn_err = NoError
    /\ queried = <<>>
    /\ qn_result = QnNone
SpecHost == InitHost /\ [][NextHost]_vars

\* resolve_record and resolve_addr, given any reply or error of send_message
InitRecord ==
    /\ config \in {RestConfig, [RestConfig EXCEPT !.search = <<ExampleCom>>]}
    /\ EngineAtRest
    /\ NoReader
    /\ NoRecord
    /\ NoQuery
    /\ NoHost
    /\ NoWriter
    /\ NoCompare
    /\ NoMessage
    /\ rr_pc = "idle"
    /\ rr_arg = <<>>
    /\ question = <<>>
    /\ reply = Sent(NoReply)
    /\ rr_result = RrNone
SpecRecord == InitRecord /\ [][NextRecord]_vars

\* write_name of a name into an empty writer, then read_name over the bytes
\* written; or read_name of a long name in a message
InitCodec ==
    /\ IdleEngine
    /\ NoReader
    /\ NoRecord
    /\ NoQuery
    /\ NoHost
    /\ NoCall
    /\ NoCompare
    /\ NoMessage
    /\ w_pc \in {"idle", "wire"}
    /\ w_name \in (IF w_pc = "idle" THEN WriterNames ELSE {<<>>})
    /\ w_data = <<>>
    /\ w_result = "None"
SpecCodec == InitCodec /\ [][NextCodec]_vars

\* the equality functions on any two endpoints
InitCompare ==
    /\ IdleEngine
    /\ NoReader
    /\ NoRecord
    /\ NoQuery
    /\ NoHost
    /\ NoCall
    /\ NoWriter
    /\ NoMessage
    /\ a_pc = "idle"
    /\ a_left \in Endpoints
    /\ a_right \in Endpoints
    /\ a_fwd = FALSE
    /\ a_rev = FALSE
SpecCompare == InitCompare /\ [][NextCompare]_vars

\* Message::encode of a message into a buffer, on a little-endian or a
\* big-endian target, and Message::decode of the bytes
InitMessage ==
    /\ IdleEngine
    /\ NoReader
    /\ NoRecord
    /\ NoQuery
    /\ NoHost
    /\ NoCall
    /\ NoWriter
    /\ NoCompare
    /\ m_pc = "idle"
    /\ \E x \in Messages : m_msg = x.msg /\ m_cap = x.cap
    /\ m_little \in BOOLEAN
    /\ m_bytes = <<>>
    /\ m_err = "None"
    /\ m_out = <<>>
SpecMessage == InitMessage /\ [][NextMessage]_vars

\* send_message on a resolver with one server and one attempt or more, the
\* datagrams of the selected server decoded step by step
ReceiveConfigs ==
    {[RestConfig EXCEPT !.attempts = a, !.timeout = t] :
        a \in 1..MaxAttempts, t \in 1..MaxTimeout}
InitReceive ==
    /\ config \in ReceiveConfigs
    /\ EngineAtRest
    /\ NoReader
    /\ NoRecord
    /\ NoQuery
    /\ NoHost
    /\ NoCall
    /\ NoWriter
    /\ NoCompare
    /\ NoMessage
SpecReceive == InitReceive /\ [][NextReceive]_vars

\* every receive returns a datagram or an error, and the program runs on: a
\* step that can be taken is taken
FairSpecReceive == SpecReceive /\ WF_vars(NextReceive)

\* ------------------------------------------------- the query engine: claims

\* The three tests of a reply, stated with address.rs's endpoint equality:
\* the source is the selected server, the id is that of the outbound message
\* and the message is a response.
FromServer(d) == socket_address_equal(d.src, ns_addr)
PassesTests(d) ==
    /\ FromServer(d)
    /\ d.valid
    /\ d.msg.id = out_msg.id
    /\ d.msg.qr = "Response"
FailsTests(d) ==
    \/ ~FromServer(d)
    \/ d.valid /\ (d.msg.id # out_msg.id \/ d.msg.qr # "Response")

\* C1: send_message returns Ok(msg) only if msg was received in the current
\* attempt from an endpoint equal to the server selected for that attempt
\* (same port, address equal under the v4-mapped rule), with the id of the
\* outbound message, qr = Response and rcode = NoError; a datagram that fails
\* the source, id or qr test is never returned and is not acted upon (it
\* yields no decode error and no server error).
C1_OnlyMatchingReplyReturned ==
    /\ result.tag = "Ok" =>
         /\ pc = "done"
         /\ rx_count >= 1
         /\ result.msg = rx.msg
         /\ PassesTests(rx)
         /\ ns_addr = sent_to[Len(sent_to)]
         /\ rx.msg.rcode = "NoError"
    /\ (rx_count >= 1 /\ FailsTests(rx)) =>
         /\ result.tag # "Ok"
         /\ result.err.kind \notin {"DecodeError", "DnsError"}

\* a reply is returned after an earlier datagram of the attempt was discarded,
\* and its source is the selected server in another form
C1_Witness ==
    /\ result.tag = "Ok"
    /\ rx_count >= 2
    /\ rx.src # ns_addr

\* C2: with attempts >= 1, when every attempt ends in a timeout (whatever was
\* discarded before it), exactly `attempts` datagrams were sent and the call
\* returns the timeout error of the last attempt; a datagram is sent only
\* once the attempt before it has timed out, and an attempt times out once.
C2_TimeoutsAndSends ==
    /\ timeouts <= config.attempts
    /\ sends \in {timeouts, timeouts + 1}
    /\ pc = "recv" => sends = timeouts + 1
    /\ pc = "retry" => sends = timeouts
    /\ (pc = "done" /\ config.attempts >= 1 /\ timeouts = config.attempts) =>
         /\ sends = config.attempts
         /\ io.op = "recv"
         /\ result = Err(Error("IoError", io.res))
         /\ is_timeout(result.err)

\* both attempts timed out, the second one after a datagram was discarded
C2_Witness ==
    /\ pc = "done"
    /\ config.attempts = 2
    /\ timeouts = 2
    /\ sends = 2
    /\ rx_count >= 1
    /\ result = Err(TimedOut)

C3_WitnessDns ==
    /\ pc = "done"
    /\ config.attempts = 2
    /\ retries = 0
    /\ result = Err(DnsError("NameError"))
C4_StrayThenReply ==
    [][(/\ pc = "recv"
        /\ retries = 0
        /\ rx_count = 1
        /\ ~FromServer(rx)
        /\ rx_count' = 2
        /\ socket_address_equal(rx'.src, ns_addr)
        /\ rx'.valid
        /\ rx'.msg.id = out_msg.id
        /\ rx'.msg.qr = "Response"
        /\ rx'.msg.rcode = "NoError"
        /\ elapsed' < config.timeout)
       => (/\ pc' = "done"
           /\ result' = Ok(rx'.msg)
           /\ sends' = 1
           /\ timeouts' = 0)]_vars

C4_Witness ==
    /\ pc = "done"
    /\ retries = 0
    /\ rx_count = 2
    /\ strays = 1
    /\ elapsed < config.timeout
    /\ result = Ok(rx.msg)
    /\ sends = 1
    /\ timeouts = 0

\* C5: the server of an attempt is selected once, before the send, and is the
\* one replies are matched against, however many receives the attempt makes.
\* Without rotate the i-th send of a call (from 0) goes to
\* name_servers[i mod K]; with rotate the sends of the resolver go to the
\* servers in turn, so on [A, B, C] the first three go to A, B, C.
C5_ServerSelection ==
    LET K == Len(config.name_servers)
        n == Len(sent_to)
    IN  /\ pc = "recv" => (n >= 1 /\ ns_addr = sent_to[n])
        /\ sends <= n
        /\ ~config.rotate =>
             \A i \in 0..(sends - 1) :
                 sent_to[n - sends + i + 1] = config.name_servers[(i % K) + 1]
        /\ config.rotate =>
             \A j \in 1..n : sent_to[j] = config.name_servers[((j - 1) % K) + 1]
        /\ (config.rotate /\ K = 3 /\ n >= 3) =>
             SubSeq(sent_to, 1, 3) = <<ServerA, ServerB, ServerC>>

\* three sends of a rotating resolver, the third after two receives
C5_Witness ==
    /\ config.rotate
    /\ sent_to = <<ServerA, ServerB, ServerC>>
    /\ rx_count >= 2

\* C6: an attempt in which only discarded datagrams arrive ends with a
\* timeout once the time of its receives has reached the configured timeout:
\* if the call ends in such an attempt, and the system reported no I/O error,
\* it ends with the timeout error.
C6_FloodEndsInTimeout ==
    (/\ pc = "done"
     /\ rx_count >= 1
     /\ FailsTests(rx)
     /\ elapsed >= config.timeout
     /\ io.res # "Other")
    => (result.tag = "Err" /\ is_timeout(result.err))

\* C18: a datagram from an endpoint other than the selected server, valid or
\* not, leaves the call running in the same attempt, without a result, with
\* the time of the receive taken from the remaining time (down to zero); a
\* datagram from the selected server that does not decode ends the call at
\* once with the decode error: nothing more is sent or received for it.
C18_StrangerIgnoredDecodeErrorReturned ==
    [][(/\ pc = "recv"
        /\ rx_count' = rx_count + 1)
       => (/\ ~FromServer(rx') =>
                /\ pc' = "recv"
                /\ result' = NoResult
                /\ timeout' = (IF timeout < elapsed' - elapsed THEN 0
                               ELSE timeout - (elapsed' - elapsed))
                /\ retries' = retries
                /\ last_err' = last_err
           /\ (FromServer(rx') /\ ~rx'.valid) =>
                /\ pc' = "done"
                /\ result' = Err(DecodeFailed)
           /\ sends' = sends
           /\ timeouts' = timeouts)]_vars

\* bytes that do not decode came from a stranger: the call goes on with
\* less time left
C18_Witness ==
    /\ pc = "recv"
    /\ io = Io("recv", "datagram")
    /\ ~FromServer(rx)
    /\ ~rx.valid
    /\ result = NoResult
    /\ timeout > 0
    /\ timeout < config.timeout

\* bytes that do not decode came from the selected server
C18_WitnessDecodeError ==
    /\ pc = "done"
    /\ io = Io("recv", "datagram")
    /\ FromServer(rx)
    /\ ~rx.valid
    /\ result = Err(DecodeFailed)
    /\ retries = 0
    /\ config.attempts = 2

\* the id of the query made before the current one
EarlierId == (out_msg.id + IdLimit - 1) % IdLimit

\* C28: a new query takes the value of the generate_id cell as its id and
\* leaves the cell one higher modulo 2^16, so its id is that of the query
\* before it plus one modulo 2^16 and differs from it; within one send_message
\* call the outbound message, its id included, stays the same through every
\* attempt; a response from the selected server that carries the id of the
\* earlier query, received during a later query, is not returned: the call
\* stays in the same attempt and sends nothing for it.
C28_MessageIds ==
    [][/\ calls' = calls + 1 =>
            /\ out_msg'.id = ID
            /\ ID' = (out_msg'.id + 1) % IdLimit
            /\ calls >= 1 => /\ out_msg'.id = (out_msg.id + 1) % IdLimit
                             /\ out_msg'.id # out_msg.id
       /\ calls' = calls => (out_msg' = out_msg /\ ID' = ID)
       /\ (/\ pc = "recv"
           /\ rx_count' = rx_count + 1
           /\ calls >= 2
           /\ FromServer(rx')
           /\ rx'.valid
           /\ rx'.msg.id = EarlierId)
          => (/\ result'.tag # "Ok"
              /\ retries' = retries
              /\ sends' = sends)]_vars

\* the second query of a resolver, in its second attempt, after the counter
\* wrapped: a response to the first query came from the selected server
C28_Witness ==
    /\ pc = "recv"
    /\ calls = 2
    /\ retries = 1
    /\ out_msg.id = 0
    /\ ID = 1
    /\ FromServer(rx)
    /\ rx.valid
    /\ rx.msg = Msg(65535, "Response", "NoError")
    /\ result = NoResult

\* C24: while an attempt receives, the time its next receive may take is the
\* configured timeout less the time its earlier receives took, and zero when
\* they took more; an attempt starts with the whole timeout; within an
\* attempt the time left never grows, and a receive that returns a datagram
\* and leaves the attempt running makes it smaller.
C24_RemainderAccounting ==
    [][/\ pc' = "recv" =>
            timeout' = (IF config.timeout < elapsed' THEN 0
                        ELSE config.timeout - elapsed')
       /\ (pc = "retry" /\ pc' = "recv") =>
            (timeout' = config.timeout /\ elapsed' = 0)
       /\ (pc = "recv" /\ pc' = "recv") =>
            /\ timeout' <= timeout
            /\ retries' = retries
            /\ rx_count' = rx_count + 1
            /\ FailsTests(rx')
            /\ timeout' < timeout]_vars

\* in the second attempt of a call, two datagrams were discarded and there
\* is time left
C24_Witness ==
    /\ pc = "recv"
    /\ retries = 1
    /\ rx_count = 2
    /\ elapsed = 2
    /\ timeout = config.timeout - 2
    /\ timeout > 0

\* C25: the cursor is an index into the server list; with rotate the cursor
\* is the number of sends of the resolver modulo the number of servers,
\* across its calls, and the j-th send goes to name_servers[(j - 1) mod K];
\* without rotate the cursor stays 0 and the first send of every call goes
\* to name_servers[0].
C25_RotationCursor ==
    LET K == Len(config.name_servers)
        n == Len(sent_to)
    IN  /\ next_ns \in 0..(K - 1)
        /\ config.rotate =>
             /\ next_ns = n % K
             /\ \A j \in 1..n : sent_to[j] = config.name_servers[((j - 1) % K) + 1]
        /\ ~config.rotate =>
             /\ next_ns = 0
             /\ sends >= 1 => sent_to[n - sends + 1] = config.name_servers[1]

\* the second call of a rotating resolver with three servers starts where
\* the first call stopped
C25_Witness ==
    /\ config.rotate
    /\ Len(config.name_servers) = 3
    /\ calls = 2
    /\ sends = 1
    /\ Len(sent_to) = 2
    /\ ns_addr = ServerB
    /\ next_ns = 2

\* the second call of a resolver that does not rotate starts at the first
\* server again
C25_WitnessNoRotate ==
    /\ ~config.rotate
    /\ Len(config.name_servers) = 3
    /\ calls = 2
    /\ sends = 1
    /\ sent_to = <<ServerA, ServerB, ServerA>>

\* C26: send_message returns a message or an error, whatever the
\* configuration: it never ends in a panic.
C26_NeverPanics == result.tag # "Panic"

\* ------------------------------------------------------- read_name: claims

\* C7: read_name terminates on every byte sequence and every start position:
\* a call that goes on taking its steps returns, pointers that lie before the
\* start of the name included.
C7_ReadNameTerminates == <>(name_pc = "done")

\* C8: while a name that starts at offset S is decoded, a pointer whose
\* target is >= S, read first or after other pointers were followed, makes
\* read_name return Err(InvalidName) at once; a length byte whose top two
\* bits are 01 or 10 makes it return Err(InvalidMessage) at once.
C8_PointerAndLengthErrors ==
    /\ (name_pc \notin {"none", "idle"} /\ ptr_offset >= start_pos) =>
         (name_pc = "done" /\ name_result = NameErr("InvalidName"))
    /\ (name_pc \notin {"none", "idle"} /\ TopBits(len) \in {1, 2}) =>
         (name_pc = "done" /\ name_result = NameErr("InvalidMessage"))

\* a pointer was followed, and the pointer found there points at or after the
\* start of the name
C8_Witness ==
    /\ name_pc = "done"
    /\ restore # -1
    /\ ptr_offset >= start_pos
    /\ position <= start_pos
    /\ name_result = NameErr("InvalidName")

\* -------------------------------------------------------- read_rdata: claims

\* the labels of the uncompressed name found at offset k of msg
RECURSIVE LabelsAt(_, _)
LabelsAt(msg, k) ==
    IF k >= Len(msg) THEN [ok |-> FALSE, text |-> <<>>]
    ELSE LET b == msg[k + 1]
         IN  IF b = 0 THEN [ok |-> TRUE, text |-> <<>>]
             ELSE IF TopBits(b) # 0 \/ k + 1 + b > Len(msg)
             THEN [ok |-> FALSE, text |-> <<>>]
             ELSE LET seg == SubSeq(msg, k + 2, k + 1 + b)
                      rest == LabelsAt(msg, k + 1 + b)
                  IN  IF is_ascii(seg) /\ is_valid_segment(seg) /\ rest.ok
                      THEN [ok |-> TRUE, text |-> seg \o <<46>> \o rest.text]
                      ELSE [ok |-> FALSE, text |-> <<>>]

TextAt(msg, k) == IF LabelsAt(msg, k).text = <<>> THEN <<46>> ELSE LabelsAt(msg, k).text

\* C9: a pointer met in the rdata of a CName, Ns or Ptr record is an offset
\* into the message the record was read from: when the rdata is a pointer to
\* a name that stands earlier in that message, read_rdata returns that name.
C9_RdataPointerIntoMessage ==
    \A k \in 0..HeaderLen :
        (/\ rd_pc = "done"
         /\ resource.tag = "Ok"
         /\ resource.data = <<192, k>>
         /\ k < rd_offset
         /\ LabelsAt(message, k).ok)
        => rd_result = NameOk(TextAt(message, k))

\* ------------------------------------------------------- query_names: claims

\* the names the search-list rule gives: a name that ends with a dot or has
\* at least n_dots dots as it is, any other with each suffix and then bare
ClaimedNames(name, cfg) ==
    IF ends_with_dot(name) \/ count_dots(name) >= cfg.n_dots
    THEN <<name>>
    ELSE [i \in 1..Len(cfg.search) |-> name \o <<Dot>> \o cfg.search[i]] \o <<name>>

\* C10: a name that ends with '.' or has at least n_dots dots is looked up as
\* it is only; any other name is looked up with each suffix of config.search
\* in order and then bare. So, when every lookup has failed, the names looked
\* up are these; with search = ["example.com"] and n_dots = 1, "foo" gives
\* ["foo.example.com", "foo"], "foo.bar" gives ["foo.bar"] and "foo." gives
\* ["foo."].
C10_SearchListExpansion ==
    (qn_pc = "done" /\ qn_result.tag = "Err") => queried = ClaimedNames(host, config)

\* ----------------------------------------------------- resolve_host: claims

\* the names query_names works through for the host
Candidates ==
    IF use_search(host, config.n_dots) THEN with_suffixes(host, config.search)
    ELSE <<host>>

\* the lookup of the name queried last has returned
LookupOver == h_pc = "idle" /\ queried # <<>>

\* C11: the candidates are looked up in order; the first one that gives a
\* non-empty address list is the result and no candidate is looked up after
\* it; a candidate that fails, with whatever error, is followed by the next
\* one; when all have failed the error returned is that of the candidate
\* looked up last.
C11_CandidatesInOrder ==
    /\ qn_pc # "idle" => queried \o names = Candidates
    /\ (qn_pc = "search" /\ LookupOver) => (h_res = <<>> /\ qn_err = LookupResult.err)
    /\ (qn_pc = "done" /\ qn_result.tag = "Ok") =>
         /\ LookupOver
         /\ h_res # <<>>
         /\ qn_result = HostOk(h_res)
         /\ h_log[1].name = queried[Len(queried)]
    /\ (qn_pc = "done" /\ qn_result.tag = "Err") =>
         /\ LookupOver
         /\ queried = Candidates
         /\ h_res = <<>>
         /\ h_log[1].name = queried[Len(queried)]
         /\ qn_result.err = (IF h_err # NoError THEN h_err ELSE NotFound)

\* three candidates have failed, the last one with a decode error
C11_Witness ==
    /\ qn_pc = "done"
    /\ Len(queried) = 3
    /\ qn_result = QnErr(Error("DecodeError", "ShortMessage"))

\* C12: without use_inet6 the A query of a name is made first and the AAAA
\* query once it has ended, whatever it ended with; the addresses collected
\* are those of the A reply, as V4, followed by those of the AAAA reply, as
\* V6; the name succeeds if one of the two queries gave an address, even if
\* the other one failed.
C12_AThenAAAA ==
    ~config.use_inet6 =>
        /\ h_pc = "second" =>
              (Len(h_log) = 1 /\ h_log[1].q_type = RecordTypeA)
        /\ (h_pc = "end" \/ LookupOver) =>
              /\ Len(h_log) = 2
              /\ h_log[1].q_type = RecordTypeA
              /\ h_log[2].q_type = RecordTypeAAAA
              /\ h_log[2].name = h_log[1].name
              /\ h_res = h_log[1].addrs \o h_log[2].addrs
              /\ \A i \in 1..Len(h_log[1].addrs) : h_log[1].addrs[i].fam = "V4"
              /\ \A i \in 1..Len(h_log[2].addrs) : h_log[2].addrs[i].fam = "V6"
        /\ (LookupOver /\ h_res # <<>>) =>
              (qn_pc = "done" /\ qn_result = HostOk(h_res))

\* the A query failed and the AAAA query gave the address returned
C12_Witness ==
    /\ ~config.use_inet6
    /\ qn_pc = "done"
    /\ qn_result.tag = "Ok"
    /\ h_log[1].err # NoError
    /\ h_log[1].addrs = <<>>
    /\ h_log[2].addrs # <<>>

\* C13: without use_inet6, when neither query of a name gave an address and
\* both ended with an error, the name fails with the error of the AAAA query.
C13_LastErrorOfTheName ==
    (/\ ~config.use_inet6
     /\ qn_pc = "done"
     /\ qn_result.tag = "Err"
     /\ h_log[1].err # NoError
     /\ h_log[2].err # NoError)
    => qn_result.err = h_log[2].err

\* C14: with use_inet6 the AAAA query of a name is made first and the A query
\* if and only if the AAAA query gave no address; every address collected is
\* a V6 value, those of the A reply in their v4-mapped form.
C14_AAAAThenMappedA ==
    config.use_inet6 =>
        /\ h_pc = "second" =>
              (Len(h_log) = 1 /\ h_log[1].q_type = RecordTypeAAAA)
        /\ (h_pc = "end" \/ LookupOver) =>
              /\ h_log[1].q_type = RecordTypeAAAA
              /\ Len(h_log) = (IF h_log[1].addrs = <<>> THEN 2 ELSE 1)
              /\ Len(h_log) = 1 => h_res = h_log[1].addrs
              /\ Len(h_log) = 2 =>
                    /\ h_log[2].q_type = RecordTypeA
                    /\ h_log[2].name = h_log[1].name
                    /\ Len(h_res) = Len(h_log[2].addrs)
                    /\ \A i \in 1..Len(h_res) :
                          /\ h_log[2].addrs[i].fam = "V4"
                          /\ HasIpv4(h_res[i].a)
                          /\ h_res[i].a[6] = 65535
                          /\ to_ipv4(h_res[i].a) = h_log[2].addrs[i].a
              /\ \A i \in 1..Len(h_res) : h_res[i].fam = "V6"

\* the AAAA query failed and the A query gave two addresses
C14_Witness ==
    /\ config.use_inet6
    /\ qn_pc = "done"
    /\ qn_result.tag = "Ok"
    /\ h_log[1].err # NoError
    /\ Len(h_log) = 2
    /\ Len(qn_result.name) = 2

\* C15: an Ok result of resolve_host holds at least one address; when no
\* candidate gives an address the result is an error: the error kept, or the
\* not-found I/O error when the replies were good and empty.
C15_OkIsNeverEmpty ==
    /\ qn_result.tag = "Ok" => Len(qn_result.name) >= 1
    /\ (qn_pc = "done" /\ h_res = <<>>) =>
         /\ qn_result.tag = "Err"
         /\ qn_result.err # NoError
         /\ h_err = NoError => qn_result.err = NotFound

\* both queries of the only candidate got a reply without an address
C15_Witness ==
    /\ qn_pc = "done"
    /\ Len(h_log) = 2
    /\ h_log[1].err = NoError
    /\ h_log[2].err = NoError
    /\ qn_result = QnErr(NotFound)

\* ------------------------------------ resolve_record, resolve_addr: claims

\* read_rdata_name computes what the steps of read_name over the rdata
\* of a record compute (an invariant of SpecRdata)
RdataDecodersAgree ==
    rd_pc = "done" /\ resource.tag = "Ok" =>
        LET v == read_rdata_name(resource.data)
        IN  IF v.err = "None" THEN rd_result = NameOk(v.value)
            ELSE rd_result = NameErr(v.err)

\* the records of a reply in the order answer, authority, additional
InOrder(m) == m.answer \o m.authority \o m.additional

\* C16: resolve_record sends one question, for the name as it was given, of
\* the type of R and of class IN; when a reply came it returns the decoded
\* records of that type in the order answer, authority, additional, an empty
\* list when there is none, and fails when one of them does not decode.
C16_RecordsOfTypeInOrder ==
    /\ rr_pc \in {"record", "record_done"} =>
          /\ Len(question) = 1
          /\ question[1].name = rr_arg
          /\ question[1].q_type \in RecTypes
          /\ question[1].q_class = ClassInternet
    /\ rr_pc = "record_done" /\ reply.err = NoError =>
          LET t == question[1].q_type
              match == SelectSeq(InOrder(reply.msg), LAMBDA rr : rr.r_type = t)
              dec == [i \in 1..Len(match) |-> read_rdata(t, match[i].data)]
          IN  IF \A i \in 1..Len(match) : dec[i].err = "None"
              THEN /\ rr_result.tag = "Ok"
                   /\ Len(rr_result.value) = Len(match)
                   /\ \A i \in 1..Len(match) : rr_result.value[i] = dec[i].value
              ELSE rr_result.tag = "Err"

\* a reply whose answer holds a record of another type and whose authority
\* and additional sections hold one record of the type asked for each
C16_Witness ==
    /\ rr_pc = "record_done"
    /\ reply = Sent(Reply(<<CN>>, <<P2>>, <<P1>>))
    /\ rr_result = RrOk(<<<<98, 46>>, <<97, 46>>>>)

\* a reply without a record of the type asked for gives an empty list
C16_WitnessEmpty ==
    /\ rr_pc = "record_done"
    /\ reply = Sent(Reply(<<CN>>, <<>>, <<P1>>))
    /\ question[1].q_type = RecordTypeA
    /\ rr_result = RrOk(<<>>)

\* the PTR records of a reply, as positions in InOrder
PtrAt(m) == {i \in 1..Len(InOrder(m)) : InOrder(m)[i].r_type = RecordTypePtr}

FirstPtrAt(m) == CHOOSE i \in PtrAt(m) : \A j \in PtrAt(m) : i <= j

\* C17: resolve_addr asks for the PTR record of the reverse name of the
\* address; it returns the name of the first PTR record in the order answer,
\* authority, additional, less one dot at its end, whatever records of other
\* types come before it, and a not-found error when the reply has no PTR
\* record.
C17_FirstPtrName ==
    /\ rr_pc \in {"addr", "addr_done"} =>
          /\ Len(question) = 1
          /\ question[1].q_type = RecordTypePtr
          /\ question[1].q_class = ClassInternet
          /\ rr_arg = V4(<<1, 2, 3, 4>>) =>
                question[1].name = <<"4", Dot, "3", Dot, "2", Dot, "1", Dot,
                                     "in-addr", Dot, "arpa">>
          /\ rr_arg = V6(<<8193, 3512, 0, 0, 0, 0, 0, 171>>) =>
                question[1].name =
                    JoinDots(<<"b", "a", "0", "0", "0", "0", "0", "0",
                               "0", "0", "0", "0", "0", "0", "0", "0",
                               "0", "0", "0", "0", "0", "0", "0", "0",
                               "8", "b", "d", "0", "1", "0", "0", "2",
                               "ip6", "arpa">>)
    /\ rr_pc = "addr_done" /\ reply.err = NoError =>
          IF PtrAt(reply.msg) = {} THEN rr_result = RrErr(NotFound)
          ELSE LET d == InOrder(reply.msg)[FirstPtrAt(reply.msg)].data
               IN  read_rdata_name(d).err = "None" =>
                     /\ rr_result.tag = "Ok"
                     /\ rr_result.value \o <<46>> = read_rdata_name(d).value

\* the first PTR record comes after a record of another type, and another
\* PTR record follows it
C17_Witness ==
    /\ rr_pc = "addr_done"
    /\ reply = Sent(Reply(<<CN>>, <<P1>>, <<P2>>))
    /\ rr_result = RrOk(<<97>>)

\* a reply without a PTR record
C17_WitnessNotFound ==
    /\ rr_pc = "addr_done"
    /\ reply = Sent(Reply(<<CN>>, <<A1>>, <<>>))
    /\ rr_result = RrErr(NotFound)

\* ------------------------------------------ write_name, read_name: claims

\* the labels of a name: its segments, less the empty one after a final dot
Labels(name) ==
    IF name = <<46>> THEN <<>>
    ELSE IF name[Len(name)] = 46 THEN Split(SubSeq(name, 1, Len(name) - 1))
    ELSE Split(name)

RECURSIVE SumSeq(_)
SumSeq(q) == IF q = <<>> THEN 0 ELSE Head(q) + SumSeq(Tail(q))

\* the length of a label on the wire: that of its ASCII form
WireLen(label) == Len(to_ascii(label).value)

\* length octets, label bytes and the terminating zero
EncodedLen(name) ==
    SumSeq([j \in 1..Len(Labels(name)) |-> 1 + WireLen(Labels(name)[j])]) + 1

\* the name with a dot at its end
WithDot(name) == IF name[Len(name)] = 46 THEN name ELSE name \o <<46>>

\* non-empty, no "..", no dot at the start but for the root, labels of 1 to
\* 63 bytes, at most 255 bytes encoded
StructurallyValid(name) ==
    /\ name # <<>>
    /\ ~\E j \in 1..(Len(name) - 1) : name[j] = 46 /\ name[j + 1] = 46
    /\ (name[1] = 46 => name = <<46>>)
    /\ \A j \in 1..Len(Labels(name)) : WireLen(Labels(name)[j]) \in 1..63
    /\ EncodedLen(name) <= 255

\* the ASCII form of every label has no '-' at either end, no whitespace and
\* no control character, and no ASCII label begins with "xn--" in any case
LabelsWritable(name) ==
    \A j \in 1..Len(Labels(name)) :
        LET label == Labels(name)[j]
            form == to_ascii(label).value
        IN  /\ form[1] # 45
            /\ form[Len(form)] # 45
            /\ \A h \in 1..Len(form) : form[h] > 32 /\ form[h] # 127
            /\ ~(is_ascii(label) /\ Len(label) >= 4
                 /\ label[1] \in {120, 88} /\ label[2] \in {110, 78}
                 /\ label[3] = 45 /\ label[4] = 45)

\* write_name of w_name has returned, and read_name over its bytes, if it
\* was called, has returned the name with a dot at its end and left the
\* reader at the end of the bytes
RoundTrip ==
    /\ w_result = "None"
    /\ Len(w_data) = EncodedLen(w_name)
    /\ (w_name = <<46>> => w_data = <<0>>)
    /\ (w_pc = "reading" /\ name_pc = "done") =>
          /\ name_result = NameOk(WithDot(w_name))
          /\ position = Len(data)

\* C19 as stated: every structurally valid name is written by write_name and
\* read back by read_name as itself with a dot at its end, the reader ending
\* right after the name.
C19_StructurallyValidRoundTrip ==
    (w_pc \in {"written", "reading"} /\ StructurallyValid(w_name)) => RoundTrip

\* C19, amended: every structurally valid name whose labels pass the label
\* checks in their ASCII form, and none of whose ASCII labels begins with
\* "xn--", is written by write_name and read back by read_name as itself
\* with a dot at its end; the root is the single byte 0 and reads as "."; the
\* reader ends right after the name.
C19_NameRoundTrip ==
    (/\ w_pc \in {"written", "reading"}
     /\ StructurallyValid(w_name)
     /\ LabelsWritable(w_name)) => RoundTrip

\* "a.-u-umlaut", without a dot at its end and with a label that is not
\* ASCII and begins with '-', was read back
C19_Witness ==
    /\ w_pc = "reading"
    /\ name_pc = "done"
    /\ w_name = <<97, 46, 45, 252>>
    /\ name_result = NameOk(<<97, 46, 45, 252, 46>>)
    /\ position = Len(w_data)

\* the root was read back
C19_WitnessRoot ==
    /\ w_pc = "reading"
    /\ name_pc = "done"
    /\ w_name = <<46>>
    /\ w_data = <<0>>
    /\ name_result = NameOk(<<46>>)

\* the lengths of the labels of a long name
LabelLengths(name) == [j \in 1..Len(Labels(name)) |-> Len(Labels(name)[j])]

\* C20: a name of letters whose encoded form has at most 255 bytes and whose
\* labels have at most 63 is written, with or without a dot at its end, in
\* exactly that many bytes, and read back; one whose encoded form has 256
\* bytes or more, or that has a label of 64 bytes, makes write_name return
\* InvalidName; read_name returns no name for which it read more than 254
\* bytes of labels and lengths, through pointers or not.
C20_NameLengthLimits ==
    /\ (w_pc \in {"written", "reading"} /\ w_name \in LongNames) =>
          IF /\ EncodedLen(w_name) <= NAME_LIMIT
             /\ \A j \in 1..Len(Labels(w_name)) : LabelLengths(w_name)[j] <= LABEL_LIMIT
          THEN RoundTrip
          ELSE w_result = "InvalidName"
    /\ (w_pc \in {"reading", "wire"} /\ name_result.tag = "Ok") =>
          /\ total_read + 1 <= NAME_LIMIT
          /\ (w_pc = "wire" => Len(name_result.name) + 1 <= NAME_LIMIT)

\* a name of 255 encoded bytes without a dot at its end was read back
C20_Witness ==
    /\ w_pc = "reading"
    /\ name_pc = "done"
    /\ LabelLengths(w_name) = <<63, 63, 63, 61>>
    /\ w_name[Len(w_name)] # 46
    /\ Len(w_data) = 255
    /\ name_result = NameOk(w_name \o <<46>>)

\* the same name with a dot at its end
C20_WitnessDot ==
    /\ w_pc = "reading"
    /\ name_pc = "done"
    /\ LabelLengths(w_name) = <<63, 63, 63, 61>>
    /\ w_name[Len(w_name)] = 46
    /\ Len(w_data) = 255
    /\ name_result = NameOk(w_name)

\* one byte more in the last label
C20_WitnessTooLong ==
    /\ w_pc = "written"
    /\ LabelLengths(w_name) = <<63, 63, 63, 62>>
    /\ w_result = "InvalidName"

\* a name of 256 bytes whose last three labels are reached through a pointer
C20_WitnessPointer ==
    /\ w_pc = "wire"
    /\ name_pc = "done"
    /\ ptr_offset = 0
    /\ data[194] = 62
    /\ name_result = NameErr("InvalidName")

\* a name of 255 bytes whose last three labels are reached through a pointer
C20_WitnessPointerFits ==
    /\ w_pc = "wire"
    /\ name_pc = "done"
    /\ ptr_offset = 0
    /\ total_read = 254
    /\ name_result.tag = "Ok"

\* the first length byte, from offset p on, that is a pointer or the zero
\* that ends the name, in a message whose labels are whole
RECURSIVE FirstStop(_, _)
FirstStop(bytes, p) ==
    LET b == bytes[p + 1]
    IN  IF b = 0 THEN [pointer |-> FALSE, at |-> p]
        ELSE IF TopBits(b) = 3 THEN [pointer |-> TRUE, at |-> p]
        ELSE FirstStop(bytes, p + 1 + b)

\* C29: after read_name has returned a name, the reader is at the byte after
\* the two bytes of the first pointer of the name, however many pointers were
\* followed, and, when the name has no pointer, at the byte after the zero
\* that ends it.
C29_ResumePosition ==
    (name_pc = "done" /\ name_result.tag = "Ok") =>
        LET stop == FirstStop(data, start_pos)
        IN  position = (IF stop.pointer THEN stop.at + 2 ELSE stop.at + 1)

\* a label, then a chain of two pointers: the reader is after the first
C29_Witness ==
    /\ w_pc = "wire"
    /\ name_pc = "done"
    /\ data = <<1, 97, 0, 192, 0, 1, 97, 192, 3, 9, 9>>
    /\ start_pos = 5
    /\ ptr_offset = 0
    /\ name_result = NameOk(<<97, 46, 97, 46>>)
    /\ position = 9

\* a chain of three pointers
C29_WitnessThree ==
    /\ w_pc = "wire"
    /\ name_pc = "done"
    /\ data = <<0, 192, 0, 192, 1, 192, 3, 9>>
    /\ name_result = NameOk(<<46>>)
    /\ position = 7

\* C30: a write_name call that returns an error leaves the writer as it was:
\* here empty.
C30_ErrorLeavesWriterUnchanged ==
    (w_pc = "written" /\ w_result # "None") => w_data = <<>>

\* ------------------------------------------------ address equality: claims

\* the V4 address x and the V6 address y: y is the mapped or the compatible
\* form of x
WrapsV4(x, y) == y = to_ipv6_mapped(x) \/ y = to_ipv6_compatible(x)

\* the relation the equality functions are to compute
SameAddress(x, y) ==
    CASE x.fam = y.fam -> Len(x.a) = Len(y.a) /\ \A i \in DOMAIN x.a : x.a[i] = y.a[i]
      [] x.fam = "V4" /\ y.fam = "V6" -> WrapsV4(x, y)
      [] x.fam = "V6" /\ y.fam = "V4" -> WrapsV4(y, x)

\* C23: address_equal holds of a V4 address and a V6 address exactly when the
\* V6 address is the v4-mapped or the v4-compatible form of the V4 address,
\* and of two addresses of one family exactly when they are equal element by
\* element; it gives the same answer for both orders of its arguments;
\* socket_address_equal holds exactly when the ports are the same and the
\* addresses are equal in this sense; addresses_match is symmetric too, holds
\* only of endpoints with the same port and equal addresses, and of all of
\* them except two V6 endpoints that differ in flow info or scope id.
C23_AddressEquality ==
    /\ a_pc = "address_equal" =>
         /\ a_fwd = SameAddress(a_left.ip, a_right.ip)
         /\ a_rev = a_fwd
    /\ a_pc = "socket_address_equal" =>
         /\ a_fwd = (a_left.port = a_right.port /\ SameAddress(a_left.ip, a_right.ip))
         /\ a_rev = a_fwd
    /\ a_pc = "addresses_match" =>
         /\ a_fwd => (a_left.port = a_right.port /\ SameAddress(a_left.ip, a_right.ip))
         /\ (a_left.ip.fam # a_right.ip.fam \/ a_left.ip.fam = "V4"
               \/ a_left.scope_id = a_right.scope_id) =>
              a_fwd = (a_left.port = a_right.port /\ SameAddress(a_left.ip, a_right.ip))
         /\ a_rev = a_fwd

\* 1.2.3.4 and ::1.2.3.4 were compared and found equal
C23_Witness ==
    /\ a_pc = "address_equal"
    /\ a_left.ip = V4(<<1, 2, 3, 4>>)
    /\ a_right.ip = V6(<<0, 0, 0, 0, 0, 0, 258, 772>>)
    /\ a_fwd
    /\ a_rev

\* 1.2.3.4 and 1::102:304 were compared and found different
C23_WitnessDifferent ==
    /\ a_pc = "address_equal"
    /\ a_left.ip = V4(<<1, 2, 3, 4>>)
    /\ a_right.ip = V6(<<1, 0, 0, 0, 0, 0, 258, 772>>)
    /\ ~a_fwd
    /\ ~a_rev

\* 1.2.3.4:53 and [::ffff:1.2.3.4]:54 were compared and found different
C23_WitnessPorts ==
    /\ a_pc = "addresses_match"
    /\ a_left = SockAddr(V4(<<1, 2, 3, 4>>), DNS_PORT)
    /\ a_right.ip = V6(<<0, 0, 0, 0, 0, 65535, 258, 772>>)
    /\ a_right.port = DNS_PORT + 1
    /\ ~a_fwd

\* -------------------------------------------------------- Message: claims

\* the bytes a name that ends with a dot takes in a message
NameSize(name) == IF name = <<46>> THEN 1 ELSE Len(name) + 1

RECURSIVE SectionSize(_)
SectionSize(items) ==
    IF items = <<>> THEN 0
    ELSE LET x == Head(items)
         IN  NameSize(x.name)
             + (IF "data" \in DOMAIN x THEN 10 + Len(x.data) ELSE 4)
             + SectionSize(Tail(items))

\* the length of the encoded form of a message: the header, then name, type
\* and class of every question, then name, ten bytes and rdata of every record
MessageSize(m) ==
    12 + SectionSize(m.question) + SectionSize(m.answer)
       + SectionSize(m.authority) + SectionSize(m.additional)

\* the length of every rdata of the message has two equal bytes
LengthsReadAlike(m) ==
    LET rs == m.answer \o m.authority \o m.additional
    IN  \A i \in DOMAIN rs : Len(rs[i].data) \div 256 = Len(rs[i].data) % 256

\* C21: a message that was encoded and then decoded comes back as it was.
C21_MessageRoundTrip ==
    m_pc = "decoded" => m_out = DecodeOk(m_msg)

\* What holds of the round trip: the message comes back exactly when its
\* opcode is Query and, on a little-endian target, every rdata length has two
\* equal bytes; whatever the opcode and the target, id, qr, the four flags
\* and the response code of a message without records come back.
C21_RoundTripOfQueries ==
    m_pc = "decoded" =>
        /\ (m_out = DecodeOk(m_msg)) <=>
              (m_msg.header.op = Named("Query")
               /\ (m_little => LengthsReadAlike(m_msg)))
        /\ (m_msg.answer = <<>> /\ m_msg.additional = <<>>) =>
              /\ m_out.err = "None"
              /\ m_out.msg.question = m_msg.question
              /\ [m_out.msg.header EXCEPT !.op = m_msg.header.op] = m_msg.header
              /\ m_out.msg.header.op =
                   OpCode_from_u8(OpCode_to_u8(m_msg.header.op) * 8)

\* the message of test_message encodes to the bytes the test expects
C21_TestMessageBytes ==
    (/\ m_pc = "encoded"
     /\ m_err = "None"
     /\ m_msg = Message(TestHeader, <<Question(FooBarCom, RecordTypeA, ClassInternet)>>,
                        <<>>, <<>>, <<>>))
    => m_bytes = <<171, 205, 1, 128, 0, 1, 0, 0, 0, 0, 0, 0,
                   3, 102, 111, 111, 3, 98, 97, 114, 3, 99, 111, 109, 0,
                   0, 1, 0, 1>>

\* a message with the opcode Status was encoded and decoded
C21_WitnessStatus ==
    /\ m_pc = "decoded"
    /\ m_msg.header.op = Named("Status")
    /\ m_out.err = "None"
    /\ m_out.msg.header.op = Other(16)

\* a record with four bytes of rdata was encoded on a little-endian target
C21_WitnessLength ==
    /\ m_pc = "decoded"
    /\ m_little
    /\ m_msg.header = TestHeader
    /\ m_msg.question = <<>>
    /\ m_msg.additional = <<>>
    /\ Len(m_msg.answer) = 1
    /\ Len(m_msg.answer[1].data) = 4
    /\ m_bytes[22] = 4
    /\ m_bytes[23] = 0
    /\ m_out = DecodeFails("ShortMessage")

\* C22: an encode that succeeds returns the whole encoded form of the
\* message, of at most 512 bytes and at most the length of the buffer; when
\* the encoded form is longer than 512 bytes encode returns TooLong, whatever
\* the length of the buffer; when it is longer than the buffer encode returns
\* TooLong; in every other case, that of exactly 512 bytes included, encode
\* succeeds. The buffer never holds more than 512 written bytes.
C22_MessageSizeBound ==
    m_pc \in {"encoded", "decoded"} =>
        LET size == MessageSize(m_msg)
        IN  /\ Len(m_bytes) <= MESSAGE_LIMIT
            /\ m_err = "None" =>
                 /\ Len(m_bytes) = size
                 /\ size <= MESSAGE_LIMIT
                 /\ size <= m_cap
            /\ size > MESSAGE_LIMIT => m_err = "TooLong"
            /\ size > m_cap => m_err = "TooLong"
            /\ (size <= MESSAGE_LIMIT /\ size <= m_cap) => m_err = "None"

\* a message of exactly 512 bytes was encoded into a buffer of 600
C22_Witness ==
    /\ m_pc = "encoded"
    /\ m_cap = 600
    /\ MessageSize(m_msg) = MESSAGE_LIMIT
    /\ m_err = "None"
    /\ Len(m_bytes) = MESSAGE_LIMIT

\* a message of 513 bytes was not encoded into a buffer of 600
C22_WitnessTooLong ==
    /\ m_pc = "encoded"
    /\ m_cap = 600
    /\ MessageSize(m_msg) = MESSAGE_LIMIT + 1
    /\ m_err = "TooLong"

\* the message of test_message was not encoded into a buffer of 8 bytes
C22_WitnessSmallBuffer ==
    /\ m_pc = "encoded"
    /\ m_cap = 8
    /\ MessageSize(m_msg) = 29
    /\ m_err = "TooLong"

\* ------------------------------------------------------ bounded work: claims

\* C27: a send_message call that has started returns a result or an error.
C27_EveryCallTerminates ==
    (pc \in {"retry", "recv", "decode"}) ~> (pc = "done" /\ result.tag \in {"Ok", "Err"})

\* one send_message call sends at most `attempts` datagrams, and the resolver
\* as many as its calls together
C27_BoundedSends ==
    /\ sends <= config.attempts
    /\ Len(sent_to) <= calls * config.attempts

\* resolve_host looks up at most one candidate per search suffix and the name
\* itself, and makes at most two queries for a candidate
C27_BoundedQueries ==
    /\ Len(queried) <= Len(config.search) + 1
    /\ Len(h_log) <= 2

\* the decoder is in the header of the datagram, at the flags it was sent to
\* by the pointer of the question name, for the second time
C27_WitnessLoop ==
    /\ pc = "decode"
    /\ name_pc = "pointer"
    /\ position = 3
    /\ ptr_offset = 2
    /\ start_pos = 12
    /\ restore = 14
    /\ total_read = 0

====
